---- MODULE Spec2Model ----
(***************************************************************************)
(* Verification model of the Beancount import and analysis scripts.        *)
(*                                                                         *)
(* Money is kept in integers.  Decimal amounts of core/protocols.py are    *)
(* counted in mills (1/1000 of a currency unit) so that 0.01 is 10 and a   *)
(* value between two cents exists.                                         *)
(***************************************************************************)
EXTENDS Integers, Sequences, FiniteSets, TLC

VARIABLES
    ledger,     \* the Transactions constructed so far, in construction order
    outcome,    \* how the last constructor call of core/protocols.py ended
    vat_rate,   \* ExcelToBeancountImporter.vat_rate, in hundredths (0.18 is 18)
    entry,      \* what the last call of calculate_vat_amounts or of
                \* create_beancount_entry was given and returned
    amt,        \* the last call of make_amount: its argument, its result, and
                \* the result of make_amount on that result
    file,       \* the ledger file on disk: the accounts it opens and its lines
    report,     \* what the last analysis of the file returned
    name,       \* a customer name and a tax code, and what the name functions
                \* returned for them
    payment,    \* a payment-method cell, and what the routing functions
                \* returned for it
    batch,      \* a batch of records, the converter it is given to, and what
                \* the converter did with it
    res,        \* a Result of core/protocols.py and the last method called
                \* on it
    export,     \* the records given to an exporter and the text it wrote
    call        \* the last call of a reporting function and what it gave

vars ==
    <<ledger, outcome, vat_rate, entry, amt, file, report, name, payment, batch,
      res, export, call>>

txnVars == <<ledger, outcome>>
vatVars == <<vat_rate, entry>>
amtVars == <<amt>>
fileVars == <<file, report>>
unitVars == <<name, payment, batch, res, export, call>>

----------------------------------------------------------------------------
(* Bounds *)

MaxTxns == 2        \* transactions kept in the ledger
MaxPostings == 3    \* postings offered to one Transaction constructor call
MaxMills == 60      \* thousandths in the Decimals given to make_amount
MaxRows == 2        \* rows of a spreadsheet
MaxLines == 9       \* lines of a ledger file that lines are appended to
MaxNameLen == 3     \* characters of the customer names tried in full
MaxWords == 2       \* words of a payment-method cell
MaxValue == 6       \* the largest value held by a Result
MaxAmounts == 6     \* distinct amounts of a ledger with repeated amounts
MaxRepeat == 2      \* postings of one amount in such a ledger
MaxDays == 1        \* days between the first and the last run
MaxUuids == 2       \* values uuid4 can give

----------------------------------------------------------------------------
(* Arithmetic helpers *)

Abs(x) == IF x < 0 THEN -x ELSE x

RECURSIVE SumSeq(_)
SumSeq(s) == IF s = <<>> THEN 0 ELSE Head(s) + SumSeq(Tail(s))

----------------------------------------------------------------------------
(* core/protocols.py: Posting and Transaction *)

\* Decimal('0.01') of Transaction.__post_init__, in mills
Tolerance == 10

Currencies == {"GEL", "USD"}

\* amounts (mills) of the Postings offered: scenario A (118.00, -100.00,
\* -18.00), residues of 0.01 and 0.011 (-17.990, -17.989) and a posting that
\* leaves a pair 5.00 apart (-113.00)
PostingAmounts == {118000, -100000, -18000, -17990, -17989, -113000}

\* Posting.__post_init__: raises ValueError on a zero amount
Posting_post_init(amount) ==
    IF amount = 0 THEN "Posting amount cannot be zero" ELSE "ok"

\* how the postings of one call are denominated: all in the default currency
\* of the importers, or the first in USD and the rest in GEL
CurrencyPatterns == {"GEL", "mixed"}

CurrencyAt(pattern, i) ==
    IF pattern = "mixed" THEN (IF i = 1 THEN "USD" ELSE "GEL") ELSE pattern

AmountSeqs == UNION { [1..n -> PostingAmounts] : n \in 0..MaxPostings }

\* the tuples of Posting objects a caller can hand to Transaction(...); the
\* account of a posting plays no part in any check of the constructor
PostingSeqs ==
    { [i \in 1..Len(a) |-> [amount |-> a[i], currency |-> CurrencyAt(c, i)]] :
        a \in AmountSeqs, c \in CurrencyPatterns }

Amounts(postings) == [i \in 1..Len(postings) |-> postings[i].amount]

Total(postings) == SumSeq(Amounts(postings))

CurrenciesOf(postings) == { postings[i].currency : i \in 1..Len(postings) }

\* Transaction.__post_init__ without its currency check
Transaction_post_init_NoCurrencyCheck(postings) ==
    IF Len(postings) < 2 THEN "Transaction must have at least 2 postings"
    ELSE IF Abs(Total(postings)) > Tolerance
         THEN "Transaction does not balance"
    ELSE "ok"

\* Transaction.__post_init__ with the tolerance taken twice
Transaction_post_init_WideTolerance(postings) ==
    IF Len(postings) < 2 THEN "Transaction must have at least 2 postings"
    ELSE IF Abs(Total(postings)) > 2 * Tolerance
         THEN "Transaction does not balance"
    ELSE IF Cardinality(CurrenciesOf(postings)) > 1
         THEN "Mixed currencies in transaction"
    ELSE "ok"

\* the three checks of Transaction.__post_init__, in the order of the code;
\* the result is the message of the ValueError raised, or "ok"
Transaction_post_init(postings) ==
    IF Len(postings) < 2 THEN "Transaction must have at least 2 postings"
    ELSE IF Abs(Total(postings)) > Tolerance
         THEN "Transaction does not balance"
    ELSE IF Cardinality(CurrenciesOf(postings)) > 1
         THEN "Mixed currencies in transaction"
    ELSE "ok"

\* the call was given two or more postings of one currency whose sum is
\* exactly 0.01 away from zero
OnEdge(postings) ==
    /\ Len(postings) >= 2
    /\ Abs(Total(postings)) = Tolerance
    /\ Cardinality(CurrenciesOf(postings)) = 1

\* how a constructor call ended.  Both __post_init__ methods signal failure
\* with `raise ValueError(...)`; nothing in the module wraps them in a Result.
Raised(msg, edge) ==
    [ok |-> FALSE, exc |-> "ValueError", channel |-> "raise", msg |-> msg,
     edge |-> edge]

Constructed(edge) ==
    [ok |-> TRUE, exc |-> "none", channel |-> "return", msg |-> "ok",
     edge |-> edge]

NoCall ==
    [ok |-> FALSE, exc |-> "none", channel |-> "none", msg |-> "none",
     edge |-> FALSE]

\* Posting(account, amount, currency)
BuildPosting(amount) ==
    /\ outcome' = IF Posting_post_init(amount) = "ok" THEN Constructed(FALSE)
                  ELSE Raised(Posting_post_init(amount), FALSE)
    /\ UNCHANGED <<ledger, vatVars, amtVars, fileVars, unitVars>>

\* Transaction(id, date, description, postings, metadata): the dataclass runs
\* __post_init__; a Transaction that passes is frozen (no field is assigned
\* again) and is appended to the ledger, the accumulator of the batch
BuildTransaction(postings) ==
    /\ Len(ledger) < MaxTxns
    /\ LET msg == Transaction_post_init(postings) IN
       IF msg = "ok"
       THEN /\ ledger' = Append(ledger, [postings |-> postings])
            /\ outcome' = Constructed(OnEdge(postings))
       ELSE /\ outcome' = Raised(msg, OnEdge(postings))
            /\ UNCHANGED ledger
    /\ UNCHANGED <<vatVars, amtVars, fileVars, unitVars>>

----------------------------------------------------------------------------
(* Decimal texts *)

\* a decimal text as the exporters write it and as Decimal(...) reads it:
\* `minus` leading minus signs, then the magnitude in cents with 2 decimals
Text(minus, cents) == [minus |-> minus, cents |-> cents]

\* Decimal(str): one optional sign; a second sign is no number
DecimalParses(text) == text.minus <= 1

\* the value of a decimal text, in mills
DecimalOfText(text) ==
    IF text.minus = 1 THEN -(text.cents * 10) ELSE text.cents * 10

----------------------------------------------------------------------------
(* Python floats of the importers, as exact fractions of a cent with a sign  *)
(* bit (a float zero keeps its sign: -0.0 is written "-0.00")               *)

RECURSIVE GCD(_, _)
GCD(a, b) == IF b = 0 THEN a ELSE GCD(b, a % b)

\* the fraction n / d in lowest terms
Float(neg, n, d) == [neg |-> neg, n |-> n \div GCD(n, d), d |-> d \div GCD(n, d)]

FloatOfCents(c) == Float(c < 0, Abs(c), 1)

FIsZero(x) == x.n = 0

\* the signed numerator of x over the denominator d * x.d
Signed(x, d) == IF x.neg THEN -(x.n * d) ELSE x.n * d

\* -x
FNeg(x) == Float(~x.neg, x.n, x.d)

\* x - y; a zero difference is +0.0 unless x is -0.0 and y is +0.0
FSub(x, y) ==
    LET num == Signed(x, y.d) - Signed(y, x.d) IN
    IF num = 0 THEN Float(x.neg /\ FIsZero(x) /\ ~y.neg, 0, x.d * y.d)
    ELSE Float(num < 0, Abs(num), x.d * y.d)

\* x / (q / 100) for an integer q # 0
FDivHundredths(x, q) == Float(x.neg # (q < 0), x.n * 100, x.d * Abs(q))

\* f"{x:.2f}": the nearest cent; a value halfway between two cents goes the
\* way of the binary expansion of the float, which this model does not hold:
\* `up` says which way
Fmt2f(x, up) ==
    LET q == x.n \div x.d
        r == x.n % x.d
    IN  Text(IF x.neg THEN 1 ELSE 0,
             IF 2 * r > x.d \/ (2 * r = x.d /\ up) THEN q + 1 ELSE q)

\* the texts f"{x:.2f}" can give
Fmt2fSet(x) == { Fmt2f(x, up) : up \in BOOLEAN }

\* f"-{x:.2f}": a minus sign put before the text
MinusBefore(text) == Text(text.minus + 1, text.cents)

----------------------------------------------------------------------------
(* Characters and strings.  A string is a sequence of characters; the       *)
(* Georgian letters go by their names (AN, BAN, ...)                        *)

LatinChars ==
    {"a", "b", "c", "d", "e", "f", "h", "k", "n", "o", "r", "s", "t", "u", "w",
     "A", "C", "H", "S", "U"}
DigitChars == {"0", "1", "2", "3", "4", "5", "6", "7", "8", "9"}
GeorgianChars ==
    {"AN", "BAN", "DON", "EN", "GHAN", "IN", "KAN", "NAR", "RAE", "SHIN", "TAN"}
SpaceChars == {" "}

DigitValue(c) ==
    CASE c = "0" -> 0 [] c = "1" -> 1 [] c = "2" -> 2 [] c = "3" -> 3
      [] c = "4" -> 4 [] c = "5" -> 5 [] c = "6" -> 6 [] c = "7" -> 7
      [] c = "8" -> 8 [] c = "9" -> 9

Keep(s, set) == SelectSeq(s, LAMBDA c : c \in set)

CountOf(s, c) == Len(SelectSeq(s, LAMBDA x : x = c))

RECURSIVE DigitsValue(_)
DigitsValue(s) ==
    IF s = <<>> THEN 0
    ELSE DigitsValue(SubSeq(s, 1, Len(s) - 1)) * 10 + DigitValue(s[Len(s)])

RECURSIVE Pow10(_)
Pow10(k) == IF k = 0 THEN 1 ELSE 10 * Pow10(k - 1)

\* the index of the first c in s, or 0
RECURSIVE IndexOf(_, _)
IndexOf(s, c) ==
    IF s = <<>> THEN 0
    ELSE IF Head(s) = c THEN 1
    ELSE IF IndexOf(Tail(s), c) = 0 THEN 0 ELSE 1 + IndexOf(Tail(s), c)

----------------------------------------------------------------------------
(* excel_to_beancount.py: clean_amount *)

NaN == [t |-> "nan"]
Num(x) == [t |-> "num", v |-> x]
Str(s) == [t |-> "str", s |-> s]

\* re.sub(r'[^\d.-]', '', amount)
CleanedAmount(s) == Keep(s, DigitChars \cup {".", "-"})

Unsigned(s) == IF s # <<>> /\ Head(s) = "-" THEN Tail(s) ELSE s

\* float(cleaned) succeeds: an optional sign, digits with at most one point,
\* at least one digit
FloatParses(s) ==
    LET u == Unsigned(s) IN
    /\ CountOf(u, "-") = 0
    /\ CountOf(u, ".") <= 1
    /\ Keep(u, DigitChars) # <<>>

\* float(cleaned), in cents
FloatOfString(s) ==
    LET u == Unsigned(s)
        point == IndexOf(u, ".")
        decimals == IF point = 0 THEN 0 ELSE Len(u) - point
    IN  Float(s # <<>> /\ Head(s) = "-",
              DigitsValue(Keep(u, DigitChars)) * 100, Pow10(decimals))

\* clean_amount: NaN and an unparseable string give 0.0
clean_amount(amount) ==
    IF amount.t = "nan" THEN FloatOfCents(0)
    ELSE IF amount.t = "str"
         THEN IF FloatParses(CleanedAmount(amount.s))
              THEN FloatOfString(CleanedAmount(amount.s))
              ELSE FloatOfCents(0)
    ELSE amount.v

----------------------------------------------------------------------------
(* core/protocols.py: make_amount *)

\* a Decimal or int argument, as an exact fraction of a cent
Dec(x) == [t |-> "dec", v |-> x]

\* Decimal(str(value)) succeeds: for a string, digits with an optional sign
\* and at most one point and nothing else
DecimalStringParses(s) ==
    /\ Keep(s, DigitChars \cup {".", "-"}) = s
    /\ FloatParses(s)

\* Decimal.quantize(Decimal('0.01'), rounding=ROUND_HALF_EVEN)
QuantizeHalfEven(x) ==
    LET q == x.n \div x.d
        r == x.n % x.d
    IN  Text(IF x.neg THEN 1 ELSE 0,
             IF 2 * r > x.d \/ (2 * r = x.d /\ q % 2 = 1) THEN q + 1 ELSE q)

\* Decimal.quantize(Decimal('0.01'), rounding=ROUND_HALF_UP): the nearest
\* cent, a half going away from zero; the sign is kept
QuantizeHalfUp(x) ==
    LET q == x.n \div x.d
        r == x.n % x.d
    IN  Text(IF x.neg THEN 1 ELSE 0, IF 2 * r >= x.d THEN q + 1 ELSE q)

NoAmount == [ok |-> FALSE, exc |-> "not called", amount |-> Text(0, 0)]

\* make_amount(value): Decimal(str(value)) raises decimal.InvalidOperation for
\* a string that is no number
make_amount(value) ==
    IF value.t = "str" /\ ~DecimalStringParses(value.s)
    THEN [ok |-> FALSE, exc |-> "InvalidOperation", amount |-> Text(0, 0)]
    ELSE [ok |-> TRUE, exc |-> "none",
          amount |-> QuantizeHalfUp(IF value.t = "str"
                                    THEN FloatOfString(value.s) ELSE value.v)]

\* the Decimal an Amount is, as a fraction of a cent
DecimalOfAmount(text) == Float(text.minus = 1, text.cents, 1)

----------------------------------------------------------------------------
(* excel_to_beancount.py: calculate_vat_amounts *)

\* self.vat_rate = 0.18, in hundredths
DefaultVatRate == 18

\* calculate_vat_amounts with the operands of the subtraction exchanged
calculate_vat_amounts_Swapped(total_amount, rate) ==
    IF 100 + rate = 0
    THEN [ok |-> FALSE, exc |-> "ZeroDivisionError", total |-> total_amount,
          net |-> FloatOfCents(0), vat |-> FloatOfCents(0)]
    ELSE LET net_amount == FDivHundredths(total_amount, 100 + rate) IN
         [ok |-> TRUE, exc |-> "none", total |-> total_amount,
          net |-> net_amount, vat |-> FSub(net_amount, total_amount)]

\* net_amount = total_amount / (1 + self.vat_rate); the division raises
\* ZeroDivisionError when the rate is -1; nothing else is checked
calculate_vat_amounts(total_amount, rate) ==
    IF 100 + rate = 0
    THEN [ok |-> FALSE, exc |-> "ZeroDivisionError", total |-> total_amount,
          net |-> FloatOfCents(0), vat |-> FloatOfCents(0)]
    ELSE LET net_amount == FDivHundredths(total_amount, 100 + rate) IN
         [ok |-> TRUE, exc |-> "none", total |-> total_amount,
          net |-> net_amount, vat |-> FSub(total_amount, net_amount)]

NoVat ==
    [ok |-> FALSE, exc |-> "not called", total |-> FloatOfCents(0),
     net |-> FloatOfCents(0), vat |-> FloatOfCents(0)]

----------------------------------------------------------------------------
(* excel_to_beancount.py: account names *)

\* a missing cell of a text column (pd.isna)
NaNStr == <<"NaN">>

\* str.isalnum() and the regular expression class \w
IsAlnum(c) == c \in LatinChars \cup DigitChars \cup GeorgianChars
IsWord(c) == IsAlnum(c) \/ c = "_"

\* the class [\s\-\(\)] that clean_organization_name turns into hyphens
Separators == SpaceChars \cup {"-", "(", ")"}

RECURSIVE StripLeft(_, _)
StripLeft(s, set) ==
    IF s # <<>> /\ Head(s) \in set THEN StripLeft(Tail(s), set) ELSE s

RECURSIVE StripRight(_, _)
StripRight(s, set) ==
    IF s # <<>> /\ s[Len(s)] \in set
    THEN StripRight(SubSeq(s, 1, Len(s) - 1), set) ELSE s

\* str.strip(chars)
StripChars(s, set) == StripRight(StripLeft(s, set), set)

\* re.sub(r'[\s\-\(\)]+', '-', s): every run of separators becomes one hyphen
RECURSIVE CollapseSeparators(_)
CollapseSeparators(s) ==
    IF s = <<>> THEN <<>>
    ELSE IF Head(s) \in Separators
         THEN <<"-">> \o CollapseSeparators(StripLeft(Tail(s), Separators))
    ELSE <<Head(s)>> \o CollapseSeparators(Tail(s))

\* the name with its underscores left in
UnderscoresToHyphens_Kept(s) == s

\* str.replace('_', '-')
UnderscoresToHyphens(s) == [i \in 1..Len(s) |-> IF s[i] = "_" THEN "-" ELSE s[i]]

\* len(clean_name) > 50
NameLimit == 50

Unknown == <<"U", "n", "k", "n", "o", "w", "n">>

\* clean_organization_name, step by step as in the code
clean_organization_name(org_name) ==
    IF org_name = NaNStr THEN Unknown
    ELSE
    LET stripped == StripChars(org_name, SpaceChars)
        kept == SelectSeq(stripped,
                    LAMBDA c : IsWord(c) \/ c \in Separators \/ c \in GeorgianChars)
        hyphened == CollapseSeparators(kept)
        trimmed == StripChars(hyphened, {"-", "_"})
        prefixed == IF trimmed # <<>> /\ ~IsAlnum(Head(trimmed))
                    THEN <<"C">> \o trimmed ELSE trimmed
        replaced == UnderscoresToHyphens(prefixed)
        limited == IF Len(replaced) > NameLimit
                   THEN SubSeq(replaced, 1, NameLimit) ELSE replaced
    IN  IF limited # <<>> THEN limited ELSE Unknown

\* an account name: a base written in the code, then a customer segment
\* (<<>> when the account has none)
Account(base, customer) == [base |-> base, customer |-> customer]

\* get_customer_accounts
get_customer_accounts(organization) ==
    LET customer_name == clean_organization_name(organization) IN
    [bank |-> Account("Assets:Bank:Checking", customer_name),
     cash |-> Account("Assets:Cash", customer_name),
     sales |-> Account("Income:Sales", customer_name),
     vat |-> Account("Liabilities:VAT:Output", customer_name),
     receivables |-> Account("Assets:Receivables", customer_name)]

\* str.lower() on the letters of the model
Lower(c) == CASE c = "C" -> "c" [] c = "U" -> "u" [] c = "A" -> "a"
              [] c = "S" -> "s" [] c = "H" -> "h" [] c = "B" -> "b"
              [] OTHER -> c

\* the string as it is, capitals kept
LowerAll_CaseKept(s) == s

LowerAll(s) == [i \in 1..Len(s) |-> Lower(s[i])]

\* word in s: s holds word as a substring
Contains(s, word) ==
    \E i \in 0..(Len(s) - Len(word)) : SubSeq(s, i + 1, i + Len(word)) = word

\* 'cash', 'ნაღდი', 'ნაღ', 'კეში'
CashWords ==
    { <<"c", "a", "s", "h">>, <<"NAR", "AN", "GHAN", "DON", "IN">>,
      <<"NAR", "AN", "GHAN">>, <<"KAN", "EN", "SHIN", "IN">> }

\* 'bank', 'ბანკი', 'transfer', 'card', 'ბარათი'
BankWords ==
    { <<"b", "a", "n", "k">>, <<"BAN", "AN", "NAR", "KAN", "IN">>,
      <<"t", "r", "a", "n", "s", "f", "e", "r">>, <<"c", "a", "r", "d">>,
      <<"BAN", "AN", "RAE", "AN", "TAN", "IN">> }

\* determine_payment_account: the cash words are looked for first
determine_payment_account(payment_method, customer_accounts) ==
    IF payment_method = NaNStr THEN customer_accounts.bank
    ELSE LET payment_str == LowerAll(payment_method) IN
         IF \E word \in CashWords : Contains(payment_str, word)
         THEN customer_accounts.cash
         ELSE IF \E word \in BankWords : Contains(payment_str, word)
              THEN customer_accounts.bank
         ELSE customer_accounts.bank

----------------------------------------------------------------------------
(* The lines of a ledger file *)

NoAccount == Account("", <<>>)

\* one line: its leading spaces, what it is, and for an account-opening or a
\* posting line the account, the amount text and the currency
Line(kind, indent, account, text, currency) ==
    [kind |-> kind, indent |-> indent, account |-> account, text |-> text,
     currency |-> currency]

\* f'{date} * "Sale to {organization}"'
HeaderLine == Line("header", 0, NoAccount, Text(0, 0), "")

\* f'    {account}  {amount} {currency}': the 4-space posting indent
PostingLine(account, text) == Line("posting", 4, account, text, "GEL")

----------------------------------------------------------------------------
(* excel_to_beancount.py: create_beancount_entry *)

Row(organization, amount, payment_method) ==
    [organization |-> organization, amount |-> amount,
     payment_method |-> payment_method]

Entry(result, split, lines) == [result |-> result, split |-> split, lines |-> lines]

NoEntry == Entry("not called", NoVat, <<>>)

\* calculate_vat_amounts called on its own
SplitOnly(split) == Entry("split", split, <<>>)

\* the values create_beancount_entry can return for a row: None for a zero
\* total, the ZeroDivisionError of the split, or the header and three posting
\* lines (more than one value only where a written amount is halfway)
create_beancount_entry(row, rate) ==
    LET organization == StripChars(row.organization, SpaceChars)
        total_amount == clean_amount(row.amount)
        customer_accounts == get_customer_accounts(organization)
        asset_account ==
            determine_payment_account(row.payment_method, customer_accounts)
        split == calculate_vat_amounts(total_amount, rate)
    IN  IF FIsZero(total_amount) THEN { Entry("None", NoVat, <<>>) }
        ELSE IF ~split.ok THEN { Entry("raised", split, <<>>) }
        ELSE { Entry("entry", split,
                     << HeaderLine,
                        PostingLine(asset_account, total),
                        PostingLine(customer_accounts.sales, net),
                        PostingLine(customer_accounts.vat, vat) >>) :
                 total \in Fmt2fSet(total_amount),
                 net \in Fmt2fSet(FNeg(split.net)),
                 vat \in Fmt2fSet(FNeg(split.vat)) }

----------------------------------------------------------------------------
(* The sale of one row: the VAT split, the entry, the Transaction *)

\* the rates the importer is configured with: -2, -1, -0.5, 0, 0.18, 1
Rates == {-200, -100, -50, 0, DefaultVatRate, 100}

\* the amount cells of the rows: 0, 0.01, 0.015, 0.05, 1.00, 118.00, -5.00 as
\* numbers; "118.00", "1,5", "x" (no number), "-" and a missing cell
RowAmounts ==
    { Num(FloatOfCents(0)), Num(FloatOfCents(1)), Num(Float(FALSE, 15, 10)),
      Num(FloatOfCents(5)), Num(FloatOfCents(100)), Num(FloatOfCents(11800)),
      Num(FloatOfCents(-500)),
      Str(<<"1", "1", "8", ".", "0", "0">>), Str(<<"1", ",", "5">>),
      Str(<<"x">>), Str(<<"-">>), NaN }

\* the payment-method cells: missing, "cash", "bank"
RowPayments == { NaNStr, <<"c", "a", "s", "h">>, <<"b", "a", "n", "k">> }

SaleRows ==
    { Row(o, a, p) : o \in {<<"a", "b">>}, a \in RowAmounts, p \in RowPayments }

\* importer.calculate_vat_amounts(total_amount)
CalculateVatAmounts(total_amount) ==
    /\ entry' = SplitOnly(calculate_vat_amounts(total_amount, vat_rate))
    /\ outcome' = NoCall
    /\ UNCHANGED <<ledger, vat_rate, amtVars, fileVars, unitVars>>

\* importer.create_beancount_entry(row)
CreateBeancountEntry(row) ==
    /\ entry' \in create_beancount_entry(row, vat_rate)
    /\ outcome' = NoCall
    /\ UNCHANGED <<ledger, vat_rate, amtVars, fileVars, unitVars>>

\* the postings of an entry as Posting arguments: make_amount of the amount
\* written on each posting line
PostingsOfEntry(e) ==
    [i \in 1..(Len(e.lines) - 1) |->
        [amount |-> DecimalOfText(e.lines[i + 1].text),
         currency |-> e.lines[i + 1].currency]]

\* Transaction(..., postings=the postings of the entry, ...): the Postings are
\* constructed first, then the Transaction
BuildSaleTransaction ==
    /\ entry.result = "entry"
    /\ \A i \in 2..Len(entry.lines) : DecimalParses(entry.lines[i].text)
    /\ LET postings == PostingsOfEntry(entry)
           zero == \E i \in 1..Len(postings) :
                       Posting_post_init(postings[i].amount) # "ok"
           msg == Transaction_post_init(postings)
       IN  outcome' = IF zero THEN Raised("Posting amount cannot be zero", FALSE)
                      ELSE IF msg = "ok" THEN Constructed(OnEdge(postings))
                      ELSE Raised(msg, OnEdge(postings))
    /\ UNCHANGED <<ledger, vatVars, amtVars, fileVars, unitVars>>

----------------------------------------------------------------------------
(* The ledger file *)

\* a file: the accounts of its `open` directives (written sorted, one per
\* line, without indent and without amount) and its other lines in order
File(opens, lines) == [opens |-> opens, lines |-> lines]

EmptyFile == File({}, <<>>)

\* the spreadsheets: up to MaxRows rows
RowSeqs(rows) == UNION { [1..n -> rows] : n \in 0..MaxRows }

----------------------------------------------------------------------------
(* tbc_payments_importer.py *)

\* TBCPaymentsImporter.clean_amount and clean_customer_name have the bodies
\* of clean_amount and clean_organization_name of excel_to_beancount.py

PaymentRow(customer, tax_code, amount) ==
    [customer |-> customer, tax_code |-> tax_code, amount |-> amount]

\* self.tbc_bank_account
tbc_bank_account == Account("Assets:Bank:Checking:TBC", <<>>)

\* x > 0
FPositive(x) == ~x.neg /\ x.n > 0

\* load_data: rows without customer or amount are dropped, the amounts are
\* cleaned, rows whose amount is not above zero are dropped
tbc_load_data(rows) ==
    LET present == SelectSeq(rows,
                       LAMBDA r : r.customer # NaNStr /\ r.amount.t # "nan")
        cleaned == [i \in 1..Len(present) |->
                       [present[i] EXCEPT !.amount = clean_amount(@)]]
    IN  SelectSeq(cleaned, LAMBDA r : FPositive(r.amount))

\* get_receivables_account: the tax code, when there is one, goes before the
\* customer name
get_receivables_account(customer_name, tax_code) ==
    LET clean_customer == clean_organization_name(customer_name)
        clean_tax_code ==
            IF tax_code = NaNStr THEN <<>>
            ELSE SelectSeq(StripChars(tax_code, SpaceChars),
                           LAMBDA c : IsWord(c) \/ c = "-")
    IN  Account("Assets:Receivables",
                IF clean_tax_code # <<>>
                THEN clean_tax_code \o <<"-">> \o clean_customer
                ELSE clean_customer)

\* the transaction lines export_to_beancount can write for the rows:
\* f"{amount:.2f}" on the bank account, f"-{amount:.2f}" on the receivables
RECURSIVE tbc_transactions(_)
tbc_transactions(df) ==
    IF df = <<>> THEN { <<>> }
    ELSE LET row == Head(df)
             amount == clean_amount(Num(row.amount))
             receivables_account ==
                 get_receivables_account(row.customer, row.tax_code)
         IN  { << HeaderLine,
                  PostingLine(tbc_bank_account, text),
                  PostingLine(receivables_account, MinusBefore(text)) >> \o rest :
                   text \in Fmt2fSet(amount), rest \in tbc_transactions(Tail(df)) }

\* TBCPaymentsImporter.export_to_beancount: the files it can write
tbc_export_to_beancount(df) ==
    LET unique_accounts ==
            {tbc_bank_account}
            \cup { get_receivables_account(df[i].customer, df[i].tax_code) :
                       i \in 1..Len(df) }
    IN  { File(unique_accounts, lines) : lines \in tbc_transactions(df) }

----------------------------------------------------------------------------
(* excel_to_beancount.py: the whole file *)

sales_account == Account("Income:Sales", <<>>)
vat_account == Account("Liabilities:VAT:Output", <<>>)
cash_account == Account("Assets:Cash", <<>>)
bank_account == Account("Assets:Bank:Checking", <<>>)

\* load_data: rows without organization or amount are dropped
load_data(rows) ==
    SelectSeq(rows, LAMBDA r : r.organization # NaNStr /\ r.amount.t # "nan")

\* the customer accounts without the receivables account
CustomerAccountSet_NoReceivables(organization) ==
    LET customer_accounts == get_customer_accounts(organization) IN
    { customer_accounts.bank, customer_accounts.cash, customer_accounts.sales,
      customer_accounts.vat }

\* the values of the dict get_customer_accounts returns
CustomerAccountSet(organization) ==
    LET customer_accounts == get_customer_accounts(organization) IN
    { customer_accounts.bank, customer_accounts.cash, customer_accounts.sales,
      customer_accounts.vat, customer_accounts.receivables }

\* generate_account_declarations
generate_account_declarations(df) ==
    UNION { CustomerAccountSet(df[i].organization) : i \in 1..Len(df) }
    \cup { bank_account, cash_account, Account("Assets:Receivables", <<>>),
           sales_account, vat_account }

\* the entries convert_to_beancount can collect: a row whose entry is None or
\* whose conversion raised adds nothing
RECURSIVE converted_entries(_, _)
converted_entries(df, rate) ==
    IF df = <<>> THEN { <<>> }
    ELSE { (IF e.result = "entry" THEN e.lines ELSE <<>>) \o rest :
               e \in create_beancount_entry(Head(df), rate),
               rest \in converted_entries(Tail(df), rate) }

\* convert_to_beancount: the files it can write
convert_to_beancount(df, rate) ==
    { File(generate_account_declarations(df), lines) :
          lines \in converted_entries(df, rate) }

\* the transaction lines export_to_beancount can write: f"-{net_sales:.2f}",
\* f"-{vat_amount:.2f}" and f"{total_amount:.2f}" of the split computed in
\* place; a ZeroDivisionError ends the writing
RECURSIVE exported_transactions(_, _)
exported_transactions(df, rate) ==
    IF df = <<>> THEN { <<>> }
    ELSE LET row == Head(df)
             organization == clean_organization_name(row.organization)
             receivables_account ==
                 Account("Assets:Receivables",
                         clean_organization_name(organization))
             total_amount == clean_amount(row.amount)
             split == calculate_vat_amounts(total_amount, rate)
         IN  IF ~split.ok THEN { <<>> }
             ELSE { << HeaderLine,
                       PostingLine(sales_account, MinusBefore(net)),
                       PostingLine(vat_account, MinusBefore(vat)),
                       PostingLine(receivables_account, total) >> \o rest :
                        net \in Fmt2fSet(split.net),
                        vat \in Fmt2fSet(split.vat),
                        total \in Fmt2fSet(total_amount),
                        rest \in exported_transactions(Tail(df), rate) }

\* ExcelToBeancountImporter.export_to_beancount: the files it can write
export_to_beancount(df, rate) ==
    LET unique_accounts ==
            { sales_account, vat_account, cash_account, bank_account }
            \cup UNION { LET organization ==
                                 clean_organization_name(df[i].organization)
                         IN  { Account("Assets:Receivables", organization),
                               determine_payment_account(df[i].payment_method,
                                   get_customer_accounts(organization)) }
                             \cup CustomerAccountSet(organization) :
                         i \in 1..Len(df) }
    IN  { File(unique_accounts, lines) :
              lines \in exported_transactions(df, rate) }

----------------------------------------------------------------------------
(* analyze_accounts.py and analyze_fix.py *)

\* line.strip(): the leading spaces are gone
Strip(line) == [line EXCEPT !.indent = 0]

\* transaction_pattern.match(line): a date, then an asterisk
IsTransactionLine(line) == line.kind = "header"

\* line.startswith("    ")
StartsWithIndent(line) == line.indent >= 4

\* accounts[account_name] += amount, on a defaultdict
AddTo(accounts, account, amount) ==
    [a \in DOMAIN accounts \cup {account} |->
        (IF a \in DOMAIN accounts THEN accounts[a] ELSE 0)
        + (IF a = account THEN amount ELSE 0)]

\* sum(accounts.values())
RECURSIVE SumValues(_)
SumValues(accounts) ==
    IF DOMAIN accounts = {} THEN 0
    ELSE LET a == CHOOSE x \in DOMAIN accounts : TRUE IN
         accounts[a] + SumValues([x \in DOMAIN accounts \ {a} |-> accounts[x]])

NoBalances == [a \in {} |-> 0]

Report(by, ok, accounts, balanced) ==
    [by |-> by, ok |-> ok, accounts |-> accounts,
     total_balance |-> SumValues(accounts), balanced |-> balanced]

NoReport == Report("none", TRUE, NoBalances, FALSE)

\* the loop of analyze_beancount_accounts over the lines: each line is
\* stripped, then tested for a transaction, then for the posting indent; an
\* amount that is no Decimal raises decimal.InvalidOperation, which the
\* except clause does not name
RECURSIVE analyzed_lines(_, _)
analyzed_lines(lines, acc) ==
    IF lines = <<>> \/ ~acc.ok THEN acc
    ELSE LET line == Strip(Head(lines)) IN
         analyzed_lines(Tail(lines),
            IF IsTransactionLine(line) THEN acc
            ELSE IF StartsWithIndent(line) /\ line.kind = "posting"
                 THEN IF ~DecimalParses(line.text)
                      THEN [acc EXCEPT !.ok = FALSE]
                      ELSE IF line.currency = "GEL"
                           THEN [acc EXCEPT !.accounts =
                                    AddTo(@, line.account,
                                          DecimalOfText(line.text))]
                           ELSE acc
            ELSE acc)

\* analyze_beancount_accounts(file_path): "System is balanced" is
\* total_balance == 0
analyze_beancount_accounts(f) ==
    LET acc == analyzed_lines(f.lines, [ok |-> TRUE, accounts |-> NoBalances])
    IN  Report("analyze_accounts", acc.ok,
               IF acc.ok THEN acc.accounts ELSE NoBalances,
               acc.ok /\ SumValues(acc.accounts) = 0)

\* the account group [A-Za-z:]+(?:[A-Za-z0-9\-]+)* followed by white space:
\* the whole account name is of Latin letters, colons, digits and hyphens
AccountMatches(account) ==
    \A i \in 1..Len(account.customer) :
        account.customer[i] \in LatinChars \cup DigitChars \cup {"-"}

\* re.match(pattern, line): leading white space, the account, an amount with
\* at most one sign, a currency in capitals
PatternMatches(line) ==
    /\ line.kind = "posting"
    /\ line.indent >= 1
    /\ AccountMatches(line.account)
    /\ line.text.minus <= 1

\* the loop of parse_beancount_file over the lines
RECURSIVE parsed_lines(_, _)
parsed_lines(lines, balances) ==
    IF lines = <<>> THEN balances
    ELSE parsed_lines(Tail(lines),
            IF PatternMatches(Head(lines))
            THEN AddTo(balances, Head(lines).account,
                       DecimalOfText(Head(lines).text))
            ELSE balances)

\* parse_beancount_file(filename): the balances
parse_beancount_file(f) ==
    Report("analyze_fix", TRUE, parsed_lines(f.lines, NoBalances), FALSE)

----------------------------------------------------------------------------
(* Writing and reading the ledger file *)

\* the payment rows: "ab" 5.00; a Georgian customer with tax code "12" 5.00;
\* "ab" 0.004; no customer; "ab" with "x" for an amount; "ab" -5.00
PaymentRows ==
    { PaymentRow(<<"a", "b">>, NaNStr, Num(FloatOfCents(500))),
      PaymentRow(<<"AN", "BAN">>, <<"1", "2">>, Num(FloatOfCents(500))),
      PaymentRow(<<"a", "b">>, NaNStr, Num(Float(FALSE, 4, 10))),
      PaymentRow(NaNStr, NaNStr, Num(FloatOfCents(500))),
      PaymentRow(<<"a", "b">>, NaNStr, Str(<<"x">>)),
      PaymentRow(<<"a", "b">>, NaNStr, Num(FloatOfCents(-500))) }

\* the sale rows: "ab" 118.00 by bank; a Georgian customer "118.00" in cash;
\* " a b" 0.01; "ab" with "x" for an amount; no organization; "ab" -5.00
FileSaleRows ==
    { Row(<<"a", "b">>, Num(FloatOfCents(11800)), <<"b", "a", "n", "k">>),
      Row(<<"AN", "BAN">>, Str(<<"1", "1", "8", ".", "0", "0">>),
          <<"c", "a", "s", "h">>),
      Row(<<" ", "a", " ", "b">>, Num(FloatOfCents(1)), NaNStr),
      Row(<<"a", "b">>, Str(<<"x">>), <<"b", "a", "n", "k">>),
      Row(NaNStr, Num(FloatOfCents(500)), NaNStr),
      Row(<<"a", "b">>, Num(FloatOfCents(-500)), <<"b", "a", "n", "k">>) }

\* the line appended by hand: a lone posting of 5.00 GEL
AppendedLines == { PostingLine(cash_account, Text(0, 500)) }

\* importer.load_data(); importer.export_to_beancount(output_file) of
\* tbc_payments_importer.py
TbcExportToBeancount(rows) ==
    /\ file' \in tbc_export_to_beancount(tbc_load_data(rows))
    /\ report' = NoReport
    /\ UNCHANGED <<txnVars, vatVars, amtVars, unitVars>>

\* importer.load_data(); importer.convert_to_beancount(output_file)
ConvertToBeancount(rows) ==
    /\ file' \in convert_to_beancount(load_data(rows), vat_rate)
    /\ report' = NoReport
    /\ UNCHANGED <<txnVars, vatVars, amtVars, unitVars>>

\* importer.load_data(); importer.export_to_beancount(output_file) of
\* excel_to_beancount.py
ExportToBeancount(rows) ==
    /\ file' \in export_to_beancount(load_data(rows), vat_rate)
    /\ report' = NoReport
    /\ UNCHANGED <<txnVars, vatVars, amtVars, unitVars>>

\* a line appended to the file outside the exporters
AppendLine(line) ==
    /\ Len(file.lines) < MaxLines
    /\ file' = [file EXCEPT !.lines = Append(@, line)]
    /\ report' = NoReport
    /\ UNCHANGED <<txnVars, vatVars, amtVars, unitVars>>

\* analyze_beancount_accounts(the file)
AnalyzeBeancountAccounts ==
    /\ report' = analyze_beancount_accounts(file)
    /\ UNCHANGED <<txnVars, vatVars, amtVars, file, unitVars>>

\* parse_beancount_file(the file)
ParseBeancountFile ==
    /\ report' = parse_beancount_file(file)
    /\ UNCHANGED <<txnVars, vatVars, amtVars, file, unitVars>>

----------------------------------------------------------------------------
(* Calls of make_amount *)

\* the arguments: every Decimal from -MaxMills to MaxMills thousandths, the
\* Decimals 1.005, 2.675 and -2.675, the ints 5 and -3, and the strings
\* "2.675", "-0.005", "1.2.3", "x", "-" and ""
AmountInputs ==
    { Dec(Float(m < 0, Abs(m), 10)) : m \in (-MaxMills)..MaxMills }
    \cup { Dec(Float(FALSE, 1005, 10)), Dec(Float(FALSE, 2675, 10)),
           Dec(Float(TRUE, 2675, 10)), Dec(FloatOfCents(500)),
           Dec(FloatOfCents(-300)) }
    \cup { Str(<<"2", ".", "6", "7", "5">>), Str(<<"-", "0", ".", "0", "0", "5">>),
           Str(<<"1", ".", "2", ".", "3">>), Str(<<"x">>), Str(<<"-">>),
           Str(<<>>) }

NoAmountCall == [input |-> Str(<<>>), out |-> NoAmount, again |-> NoAmount]

\* make_amount(value)
MakeAmount(value) ==
    /\ amt' = [input |-> value, out |-> make_amount(value), again |-> NoAmount]
    /\ UNCHANGED <<txnVars, vatVars, fileVars, unitVars>>

\* make_amount(make_amount(value))
MakeAmountAgain ==
    /\ amt.out.ok
    /\ amt.again = NoAmount
    /\ amt' = [amt EXCEPT !.again = make_amount(Dec(DecimalOfAmount(amt.out.amount)))]
    /\ UNCHANGED <<txnVars, vatVars, fileVars, unitVars>>

----------------------------------------------------------------------------
(* Calls of the name functions *)

\* the characters the names are made of: a letter, a digit, the separators,
\* an underscore, a symbol that is dropped
NameChars == {"a", "1", " ", "-", "_", "#"}

\* every string of at most n of these characters
NameStrings(n) == UNION { [1..k -> NameChars] : k \in 0..n }

\* 49 letters
Letters49 == [i \in 1..49 |-> "a"]

\* the customer names: every string of at most MaxNameLen characters; names
\* of 49 letters followed by up to 2 more characters; a Georgian name; names
\* with an underscore next to a hyphen or a space; a missing cell
NameInputs ==
    NameStrings(MaxNameLen)
    \cup { Letters49 \o tail : tail \in NameStrings(2) }
    \cup { <<"AN", "BAN", " ", "(", "a", ")">>, <<"a", "_", "-", "a">>,
           <<"a", " ", "_", "a">>, NaNStr }

\* the tax codes: missing, "12", "1_2", " "
TaxCodes == { NaNStr, <<"1", "2">>, <<"1", "_", "2">>, <<" ">> }

NameCall(op, input, tax_code, out, again, accounts) ==
    [op |-> op, input |-> input, tax_code |-> tax_code, out |-> out,
     again |-> again, accounts |-> accounts]

NoNameCall == NameCall("none", NaNStr, NaNStr, <<>>, <<>>, {})

\* importer.clean_organization_name(org_name), which is also
\* TBCPaymentsImporter.clean_customer_name and
\* CashPaymentDetector.clean_organization_name
CleanOrganizationName ==
    /\ name.op = "none"
    /\ name' = [name EXCEPT !.op = "clean",
                            !.out = clean_organization_name(name.input)]
    /\ UNCHANGED <<txnVars, vatVars, amtVars, fileVars, payment, batch, res,
                 export, call>>

\* clean_organization_name(clean_organization_name(org_name))
CleanOrganizationNameAgain ==
    /\ name.op = "clean"
    /\ name' = [name EXCEPT !.op = "again",
                            !.again = clean_organization_name(name.out)]
    /\ UNCHANGED <<txnVars, vatVars, amtVars, fileVars, payment, batch, res,
                 export, call>>

\* importer.get_customer_accounts(organization)
GetCustomerAccounts ==
    /\ name.op = "none"
    /\ name' = [name EXCEPT !.op = "customer",
                            !.accounts = CustomerAccountSet(name.input)]
    /\ UNCHANGED <<txnVars, vatVars, amtVars, fileVars, payment, batch, res,
                 export, call>>

\* importer.get_receivables_account(customer_name, tax_code)
GetReceivablesAccount ==
    /\ name.op = "none"
    /\ name' = [name EXCEPT !.op = "receivables",
                            !.accounts = { get_receivables_account(
                                               name.input, name.tax_code) }]
    /\ UNCHANGED <<txnVars, vatVars, amtVars, fileVars, payment, batch, res,
                 export, call>>

----------------------------------------------------------------------------
(* cash_payment_detector.py: is_cash_payment *)

\* self.cash_indicators: 'ნაღდი', 'ნაღ', 'კეში', 'cash', 'ნაღდი ფული'
cash_indicators ==
    { <<"NAR", "AN", "GHAN", "DON", "IN">>, <<"NAR", "AN", "GHAN">>,
      <<"KAN", "EN", "SHIN", "IN">>, <<"c", "a", "s", "h">>,
      <<"NAR", "AN", "GHAN", "DON", "IN", " ", "PHAR", "UN", "LAS", "IN">> }

\* is_cash_payment(payment_method)
is_cash_payment(payment_method) ==
    IF payment_method = NaNStr THEN FALSE
    ELSE LET payment_str == StripChars(LowerAll(payment_method), SpaceChars) IN
         \E indicator \in cash_indicators :
             Contains(payment_str, LowerAll(indicator))

----------------------------------------------------------------------------
(* Calls of the routing functions *)

\* the words of the payment-method cells: cash, CASH, bank, Bank, transfer,
\* card, via, ნაღდი, გადახდა, კეში, ბანკი, ბარათი
PaymentWords ==
    { <<"c", "a", "s", "h">>, <<"C", "A", "S", "H">>, <<"b", "a", "n", "k">>,
      <<"B", "a", "n", "k">>, <<"t", "r", "a", "n", "s", "f", "e", "r">>,
      <<"c", "a", "r", "d">>, <<"v", "i", "a">>,
      <<"NAR", "AN", "GHAN", "DON", "IN">>,
      <<"GAN", "AN", "DON", "AN", "XAN", "DON", "AN">>,
      <<"KAN", "EN", "SHIN", "IN">>, <<"BAN", "AN", "NAR", "KAN", "IN">>,
      <<"BAN", "AN", "RAE", "AN", "TAN", "IN">> }

\* the words joined by single spaces
RECURSIVE JoinWords(_)
JoinWords(words) ==
    IF words = <<>> THEN <<>>
    ELSE IF Len(words) = 1 THEN words[1]
    ELSE words[1] \o <<" ">> \o JoinWords(Tail(words))

\* the payment-method cells: up to MaxWords words, "cash via bank transfer",
\* and a missing cell
PaymentMethods ==
    { JoinWords(words) :
          words \in UNION { [1..k -> PaymentWords] : k \in 0..MaxWords } }
    \cup { <<"c", "a", "s", "h", " ", "v", "i", "a", " ", "b", "a", "n", "k",
             " ", "t", "r", "a", "n", "s", "f", "e", "r">>, NaNStr }

\* the customer whose accounts the cells are routed to
RoutedCustomer == <<"a", "b">>

PaymentCall(op, input, account, is_cash) ==
    [op |-> op, input |-> input, account |-> account, is_cash |-> is_cash]

NoPaymentCall == PaymentCall("none", NaNStr, NoAccount, FALSE)

\* importer.determine_payment_account(payment_method, customer_accounts)
DeterminePaymentAccount ==
    /\ payment.op = "none"
    /\ payment' = [payment EXCEPT
           !.op = "determine",
           !.account = determine_payment_account(payment.input,
                           get_customer_accounts(RoutedCustomer))]
    /\ UNCHANGED <<txnVars, vatVars, amtVars, fileVars, name, batch, res,
                 export, call>>

\* detector.is_cash_payment(payment_method)
IsCashPayment ==
    /\ payment.op = "none"
    /\ payment' = [payment EXCEPT !.op = "is_cash",
                                  !.is_cash = is_cash_payment(payment.input)]
    /\ UNCHANGED <<txnVars, vatVars, amtVars, fileVars, name, batch, res,
                 export, call>>

----------------------------------------------------------------------------
(* scripts/importer.py: the CSV converter *)

\* str.replace(',', '')
WithoutCommas(s) == SelectSeq(s, LAMBDA c : c # ",")

\* parse_decimal(s): Decimal(s); when that fails, 0 for None and Decimal of
\* the string without its commas otherwise, which raises InvalidOperation
\* again when the rest is no number
parse_decimal(s) ==
    IF s.t = "nan" THEN [ok |-> TRUE, value |-> FloatOfCents(0)]
    ELSE IF DecimalStringParses(s.s)
         THEN [ok |-> TRUE, value |-> FloatOfString(s.s)]
    ELSE IF DecimalStringParses(WithoutCommas(s.s))
         THEN [ok |-> TRUE, value |-> FloatOfString(WithoutCommas(s.s))]
    ELSE [ok |-> FALSE, value |-> FloatOfCents(0)]

\* normalize_date(s) returns: a date no format matches raises ValueError
normalize_date(date) == date # "bad"

\* row_to_transaction(row) returns a transaction: the date is normalized, the
\* fields are stripped (a missing field has no strip), the amount is parsed
row_to_transaction(row) ==
    /\ normalize_date(row.date)
    /\ row.amount.t # "nan"
    /\ parse_decimal(row.amount).ok

----------------------------------------------------------------------------
(* A batch of records through a converter *)

BatchRow(amount, date) == [amount |-> amount, date |-> date]

\* what a converter did with a batch: whether it ran to its end, the rows
\* that appear as transactions in its output, the rows whose amount its
\* amount parser turned into 0 although the cell holds no number, and the
\* rows for which it reported an error
BatchResult(aborted, written, coerced, errors) ==
    [aborted |-> aborted, written |-> written, coerced |-> coerced,
     errors |-> errors]

\* clean_amount gave 0.0 for a cell that holds no number
Coerced(amount) ==
    \/ amount.t = "nan"
    \/ amount.t = "str" /\ ~FloatParses(CleanedAmount(amount.s))

\* the sale row of a batch row
SaleRowOf(row) == Row(<<"a", "b">>, row.amount, NaNStr)

\* how create_beancount_entry ends for the row: "entry", "None" or "raised"
EntryResult(row, rate) ==
    (CHOOSE e \in create_beancount_entry(SaleRowOf(row), rate) : TRUE).result

\* load_data, then convert_to_beancount: rows without amount are dropped; a
\* row whose entry is None is left out; a row that raises is reported with
\* "Error processing row" and the loop goes on
convert_batch(rows, rate) ==
    LET loaded == { i \in 1..Len(rows) : rows[i].amount.t # "nan" } IN
    BatchResult(FALSE,
        { i \in loaded : EntryResult(rows[i], rate) = "entry" },
        { i \in loaded : Coerced(rows[i].amount) },
        { i \in loaded : EntryResult(rows[i], rate) = "raised" })

\* load_data, then export_to_beancount of excel_to_beancount.py: one try
\* around all rows; every loaded row is written unless the split raises
export_batch(rows, rate) ==
    LET loaded == { i \in 1..Len(rows) : rows[i].amount.t # "nan" }
        raises == loaded # {} /\ 100 + rate = 0
    IN  BatchResult(raises,
            IF raises THEN {} ELSE loaded,
            { i \in loaded : Coerced(rows[i].amount) },
            {})

\* load_data, then export_to_beancount of tbc_payments_importer.py: rows
\* without amount and rows whose cleaned amount is not above zero are dropped
tbc_batch(rows) ==
    LET loaded == { i \in 1..Len(rows) : rows[i].amount.t # "nan" } IN
    BatchResult(FALSE,
        { i \in loaded : FPositive(clean_amount(rows[i].amount)) },
        { i \in loaded : Coerced(rows[i].amount) },
        {})

\* convert_csv_to_beancount: the transactions are built in one list
\* comprehension before the output file is opened; the first row that raises
\* ends the conversion
csv_batch(rows) ==
    LET raises == \E i \in 1..Len(rows) : ~row_to_transaction(rows[i]) IN
    BatchResult(raises, IF raises THEN {} ELSE 1..Len(rows), {}, {})

\* the amount cells: "118.00", "1,000", "x", "" and a missing cell
BatchAmounts ==
    { Str(<<"1", "1", "8", ".", "0", "0">>), Str(<<"1", ",", "0", "0", "0">>),
      Str(<<"x">>), Str(<<>>), NaN }

\* the date cells: a date in a known format, a text that is no date
BatchDates == { "ok", "bad" }

BatchRows == { BatchRow(amount, date) : amount \in BatchAmounts, date \in BatchDates }

Converters == { "convert_to_beancount", "export_to_beancount",
                "tbc_export_to_beancount", "convert_csv_to_beancount" }

Batch(converter, rows, done, result) ==
    [converter |-> converter, rows |-> rows, done |-> done, result |-> result]

NoBatch == Batch("none", <<>>, FALSE, BatchResult(FALSE, {}, {}, {}))

\* the converter is run on the batch
RunBatch ==
    /\ batch.converter # "none"
    /\ ~batch.done
    /\ batch' = [batch EXCEPT
           !.done = TRUE,
           !.result =
               CASE batch.converter = "convert_to_beancount" ->
                        convert_batch(batch.rows, vat_rate)
                 [] batch.converter = "export_to_beancount" ->
                        export_batch(batch.rows, vat_rate)
                 [] batch.converter = "tbc_export_to_beancount" ->
                        tbc_batch(batch.rows)
                 [] batch.converter = "convert_csv_to_beancount" ->
                        csv_batch(batch.rows)]
    /\ UNCHANGED <<txnVars, vatVars, amtVars, fileVars, name, payment, res,
                 export, call>>

----------------------------------------------------------------------------
(* core/protocols.py: Result *)

\* None, and a value or an error that is not None
None == [t |-> "none"]
Some(x) == [t |-> "some", v |-> x]
IsNone(x) == x.t = "none"

\* the values a Result is given: None and the ints 0..MaxValue (0 is falsy)
ResultValues == { None } \cup { Some(v) : v \in 0..MaxValue }

\* the errors a Result is given: None and the three error classes
ResultErrors ==
    { None, Some("ValidationError"), Some("ProcessingError"),
      Some("ConfigurationError") }

\* __post_init__ rejecting only a Result given both a value and an error
Result_post_init_NoneAllowed(value, error) ==
    IF ~IsNone(value) /\ ~IsNone(error)
    THEN "Result must have exactly one of value or error"
    ELSE "ok"

\* Result.__post_init__: the message of the ValueError it raises, or "ok"
Result_post_init(value, error) ==
    IF IsNone(value) = IsNone(error)
    THEN "Result must have exactly one of value or error"
    ELSE "ok"

\* is_ok taking a falsy value for no value
is_ok_Truthy(r) == ~IsNone(r.value) /\ r.value.v # 0

\* Result.is_ok
is_ok(r) == ~IsNone(r.value)

\* Result.is_err
is_err(r) == ~IsNone(r.error)

\* Result.unwrap: raises Exception when the Result holds an error
unwrap(r) ==
    IF ~IsNone(r.error) THEN [raised |-> TRUE, ret |-> None]
    ELSE [raised |-> FALSE, ret |-> r.value]

\* Result.unwrap_or
unwrap_or(r, default) == IF is_ok(r) THEN r.value ELSE default

\* the Result at hand, whether its constructor returned, and the last method
\* called on it with what the method gave
ResultState(r, constructed, op, ok, err, raised, ret, default) ==
    [r |-> r, constructed |-> constructed, op |-> op, ok |-> ok, err |-> err,
     raised |-> raised, ret |-> ret, default |-> default]

NoResult ==
    ResultState([value |-> None, error |-> None], FALSE, "none", FALSE, FALSE,
                FALSE, None, None)

\* Result(value=value, error=error)
BuildResult(value, error) ==
    /\ res' =
           IF Result_post_init(value, error) = "ok"
           THEN ResultState([value |-> value, error |-> error], TRUE, "init",
                            FALSE, FALSE, FALSE, None, None)
           ELSE ResultState([value |-> value, error |-> error], FALSE, "init",
                            FALSE, FALSE, TRUE, None, None)
    /\ UNCHANGED <<txnVars, vatVars, amtVars, fileVars, name, payment, batch,
                 export, call>>

\* r.is_ok() and r.is_err()
IsOkIsErr ==
    /\ res.constructed
    /\ res' = [res EXCEPT !.op = "is_ok", !.ok = is_ok(res.r),
                          !.err = is_err(res.r), !.raised = FALSE,
                          !.ret = None, !.default = None]
    /\ UNCHANGED <<txnVars, vatVars, amtVars, fileVars, name, payment, batch,
                 export, call>>

\* r.unwrap()
Unwrap ==
    /\ res.constructed
    /\ res' = [res EXCEPT !.op = "unwrap", !.ok = FALSE, !.err = FALSE,
                          !.raised = unwrap(res.r).raised,
                          !.ret = unwrap(res.r).ret,
                          !.default = None]
    /\ UNCHANGED <<txnVars, vatVars, amtVars, fileVars, name, payment, batch,
                 export, call>>

\* r.unwrap_or(default)
UnwrapOr(default) ==
    /\ res.constructed
    /\ res' = [res EXCEPT !.op = "unwrap_or", !.ok = FALSE,
                          !.err = FALSE, !.raised = FALSE,
                          !.ret = unwrap_or(res.r, default),
                          !.default = default]
    /\ UNCHANGED <<txnVars, vatVars, amtVars, fileVars, name, payment, batch,
                 export, call>>

----------------------------------------------------------------------------
(* The order of account names: sorted() compares strings by code point *)

\* the characters of the account names in the order of their code points
CodeOrder ==
    << " ", "#", "-", "0", "1", "2", "3", "4", "5", "6", "7", "8", "9", ":",
       "A", "B", "C", "H", "I", "L", "O", "R", "S", "T", "U", "V", "_",
       "a", "b", "c", "d", "e", "f", "g", "h", "i", "k", "l", "m", "n", "o",
       "p", "r", "s", "t", "u", "v", "w", "y",
       "AN", "BAN", "GAN", "DON", "EN", "TAN", "IN", "KAN", "LAS", "NAR",
       "RAE", "UN", "PHAR", "GHAN", "SHIN", "XAN" >>

CodePoint(c) == CHOOSE i \in 1..Len(CodeOrder) : CodeOrder[i] = c

\* the characters of the fixed parts of the account names
BaseChars(base) ==
    CASE base = "Assets:Bank:Checking" ->
             << "A", "s", "s", "e", "t", "s", ":", "B", "a", "n", "k", ":",
                "C", "h", "e", "c", "k", "i", "n", "g" >>
      [] base = "Assets:Bank:Checking:TBC" ->
             << "A", "s", "s", "e", "t", "s", ":", "B", "a", "n", "k", ":",
                "C", "h", "e", "c", "k", "i", "n", "g", ":", "T", "B", "C" >>
      [] base = "Assets:Cash" ->
             << "A", "s", "s", "e", "t", "s", ":", "C", "a", "s", "h" >>
      [] base = "Assets:Receivables" ->
             << "A", "s", "s", "e", "t", "s", ":", "R", "e", "c", "e", "i",
                "v", "a", "b", "l", "e", "s" >>
      [] base = "Income:Sales" ->
             << "I", "n", "c", "o", "m", "e", ":", "S", "a", "l", "e", "s" >>
      [] base = "Liabilities:VAT:Output" ->
             << "L", "i", "a", "b", "i", "l", "i", "t", "i", "e", "s", ":",
                "V", "A", "T", ":", "O", "u", "t", "p", "u", "t" >>
      [] OTHER -> <<>>

\* f"{base}:{customer}", or the base alone
AccountChars(account) ==
    IF account.customer = <<>> THEN BaseChars(account.base)
    ELSE BaseChars(account.base) \o <<":">> \o account.customer

\* s < t of two Python strings
RECURSIVE StrLess(_, _)
StrLess(s, t) ==
    IF t = <<>> THEN FALSE
    ELSE IF s = <<>> THEN TRUE
    ELSE IF Head(s) = Head(t) THEN StrLess(Tail(s), Tail(t))
    ELSE CodePoint(Head(s)) < CodePoint(Head(t))

\* a < b of two account names
AccountLess(a, b) == StrLess(AccountChars(a), AccountChars(b))

\* the accounts from the last to the first
RECURSIVE sorted_Descending(_)
sorted_Descending(accounts) ==
    IF accounts = {} THEN <<>>
    ELSE LET first == CHOOSE a \in accounts :
                          \A b \in accounts \ {a} : AccountLess(b, a)
         IN  <<first>> \o sorted_Descending(accounts \ {first})

\* sorted(unique_accounts)
RECURSIVE sorted(_)
sorted(accounts) ==
    IF accounts = {} THEN <<>>
    ELSE LET first == CHOOSE a \in accounts :
                          \A b \in accounts \ {a} : AccountLess(a, b)
         IN  <<first>> \o sorted(accounts \ {first})

----------------------------------------------------------------------------
(* cash_payment_detector.py: the exporter of all transactions *)

\* load_data: rows without organization or amount are dropped, the amounts
\* are cleaned, rows whose amount is not above zero are dropped, and
\* is_cash_payment of the payment method is kept with each row
cash_load_data(rows) ==
    LET present == SelectSeq(rows,
                       LAMBDA r : r.organization # NaNStr /\ r.amount.t # "nan")
        cleaned == [i \in 1..Len(present) |->
                       [organization |-> present[i].organization,
                        amount |-> clean_amount(present[i].amount),
                        is_cash_payment |->
                            is_cash_payment(present[i].payment_method)]]
    IN  SelectSeq(cleaned, LAMBDA r : FPositive(r.amount))

\* the transaction lines export_all_transactions_with_classification writes:
\* the asset account is the shared cash account for a cash payment and the
\* receivables account of the customer otherwise
RECURSIVE cash_transactions(_)
cash_transactions(df) ==
    IF df = <<>> THEN { <<>> }
    ELSE LET row == Head(df)
             organization == clean_organization_name(row.organization)
             customer_sales_account == Account("Income:Sales", organization)
             customer_vat_account ==
                 Account("Liabilities:VAT:Output", organization)
             customer_receivables_account ==
                 Account("Assets:Receivables", organization)
             split == calculate_vat_amounts(row.amount, DefaultVatRate)
             asset_account == IF row.is_cash_payment THEN cash_account
                              ELSE customer_receivables_account
         IN  { << HeaderLine,
                  PostingLine(asset_account, total),
                  PostingLine(customer_sales_account, MinusBefore(net)),
                  PostingLine(customer_vat_account, MinusBefore(vat)) >>
               \o rest :
                   total \in Fmt2fSet(row.amount),
                   net \in Fmt2fSet(split.net),
                   vat \in Fmt2fSet(split.vat),
                   rest \in cash_transactions(Tail(df)) }

\* export_all_transactions_with_classification: the files it can write; no
\* file is written when there is no row
export_all_transactions_with_classification(df) ==
    IF df = <<>> THEN {}
    ELSE LET unique_accounts ==
                 { sales_account, vat_account, cash_account,
                   Account("Assets:Receivables", <<>>) }
                 \cup UNION { LET organization ==
                                      clean_organization_name(df[i].organization)
                              IN  { Account("Income:Sales", organization),
                                    Account("Liabilities:VAT:Output", organization),
                                    Account("Assets:Receivables", organization) } :
                              i \in 1..Len(df) }
         IN  { File(unique_accounts, lines) : lines \in cash_transactions(df) }

----------------------------------------------------------------------------
(* The text of an exported file *)

\* f"2021-01-01 open {account} {self.default_currency}"
OpenLine(account) == Line("open", 0, account, Text(0, 0), "GEL")

\* the lines of the file as they are written: the open directives in the
\* order of sorted(), then the transactions
FileText(f) ==
    LET accounts == sorted(f.opens) IN
    [i \in 1..Len(accounts) |-> OpenLine(accounts[i])] \o f.lines

\* a record of the spreadsheet
ExportRecord(organization, tax_code, amount, payment_method) ==
    [organization |-> organization, tax_code |-> tax_code, amount |-> amount,
     payment_method |-> payment_method]

\* the records: "ab" 118.00 by bank; "a_-a" with tax code "12" 5.00 in cash;
\* a Georgian customer "118.00"; "ab" with "x" for an amount; no customer
ExportRecords ==
    { ExportRecord(<<"a", "b">>, NaNStr, Num(FloatOfCents(11800)),
                   <<"b", "a", "n", "k">>),
      ExportRecord(<<"a", "_", "-", "a">>, <<"1", "2">>,
                   Num(FloatOfCents(500)), <<"c", "a", "s", "h">>),
      ExportRecord(<<"AN", "BAN">>, NaNStr,
                   Str(<<"1", "1", "8", ".", "0", "0">>), NaNStr),
      ExportRecord(<<"a", "b">>, NaNStr, Str(<<"x">>), <<"b", "a", "n", "k">>),
      ExportRecord(NaNStr, NaNStr, Num(FloatOfCents(500)), NaNStr) }

\* the rates of the runs: 0.18, and -1 for which the split raises
ExportRates == { DefaultVatRate, -100 }

Exporters ==
    { "tbc_export_to_beancount", "convert_to_beancount", "export_to_beancount",
      "export_all_transactions_with_classification" }

\* the records as the rows of the sales sheet and of the payments sheet
SaleRowsOf(records) ==
    [i \in 1..Len(records) |->
        Row(records[i].organization, records[i].amount,
            records[i].payment_method)]
PaymentRowsOf(records) ==
    [i \in 1..Len(records) |->
        PaymentRow(records[i].organization, records[i].tax_code,
                   records[i].amount)]

\* the files the exporter can write for the records
ExportedFiles(exporter, records, rate) ==
    CASE exporter = "tbc_export_to_beancount" ->
             tbc_export_to_beancount(tbc_load_data(PaymentRowsOf(records)))
      [] exporter = "convert_to_beancount" ->
             convert_to_beancount(load_data(SaleRowsOf(records)), rate)
      [] exporter = "export_to_beancount" ->
             export_to_beancount(load_data(SaleRowsOf(records)), rate)
      [] exporter = "export_all_transactions_with_classification" ->
             export_all_transactions_with_classification(
                 cash_load_data(SaleRowsOf(records)))

Export(exporter, records, done, written, text) ==
    [exporter |-> exporter, records |-> records, done |-> done,
     written |-> written, text |-> text]

NoExport == Export("none", <<>>, FALSE, FALSE, <<>>)

\* load_data() and the exporter are run on the records
RunExport ==
    /\ export.exporter \in Exporters
    /\ ~export.done
    /\ LET files == ExportedFiles(export.exporter, export.records, vat_rate) IN
       \/ /\ files = {}
          /\ export' = [export EXCEPT !.done = TRUE]
       \/ \E f \in files :
              export' = [export EXCEPT !.done = TRUE, !.written = TRUE,
                                       !.text = FileText(f)]
    /\ UNCHANGED <<txnVars, vatVars, amtVars, fileVars, name, payment, batch,
                   res, call>>

\* no reporting function called
NotCalled == [fn |-> "none"]

----------------------------------------------------------------------------
(* compare_excel_beancount.py.  The amounts are Decimals, counted in mills *)

\* Decimal('0.01'), the difference below which the sums match closely
CompareTolerance == 10

\* [:5], the number of repeated amounts that are listed
ReportLimit == 5

\* n / d of two Decimals: division by zero raises
Divide(n, d) ==
    IF d = 0 THEN [printed |-> FALSE, raised |-> TRUE, n |-> 0, d |-> 1]
    ELSE [printed |-> TRUE, raised |-> FALSE, n |-> n, d |-> d]

NoPercent == [printed |-> FALSE, raised |-> FALSE, n |-> 0, d |-> 1]

\* the percent difference computed whatever the sum is
percent_difference_Unguarded(excel_sum, beancount_sum) ==
    Divide(Abs(excel_sum - beancount_sum) * 100, excel_sum)

\* if excel_sum != 0: pct_diff = abs(excel_sum - beancount_sum) / excel_sum * 100
percent_difference(excel_sum, beancount_sum) ==
    IF excel_sum # 0
    THEN Divide(Abs(excel_sum - beancount_sum) * 100, excel_sum)
    ELSE NoPercent

\* the keys of Counter(amounts), in the order of their first occurrence
RECURSIVE CounterKeys(_)
CounterKeys(amounts) ==
    IF amounts = <<>> THEN <<>>
    ELSE LET rest == CounterKeys(SubSeq(amounts, 1, Len(amounts) - 1))
             last == amounts[Len(amounts)]
         IN  IF \E i \in 1..Len(rest) : rest[i] = last THEN rest
             ELSE Append(rest, last)

\* {amount: count for amount, count in amount_counts.items() if count > 1}
duplicates(amounts) ==
    LET keys == SelectSeq(CounterKeys(amounts),
                          LAMBDA a : CountOf(amounts, a) > 1)
    IN  [i \in 1..Len(keys) |->
            [amount |-> keys[i], count |-> CountOf(amounts, keys[i])]]

\* sorted(items, key=lambda x: x[1], reverse=True): the larger count first,
\* items of the same count in the order they had
RECURSIVE sorted_by_count(_)
sorted_by_count(items) ==
    IF items = <<>> THEN <<>>
    ELSE LET k == CHOOSE i \in 1..Len(items) :
                      /\ \A j \in 1..Len(items) : items[j].count <= items[i].count
                      /\ \A j \in 1..(i - 1) : items[j].count < items[i].count
         IN  <<items[k]>>
             \o sorted_by_count(SubSeq(items, 1, k - 1)
                                \o SubSeq(items, k + 1, Len(items)))

\* most_common = sorted(...)[:5]
most_common(items) ==
    LET ordered == sorted_by_count(items) IN
    SubSeq(ordered, 1, IF Len(ordered) < ReportLimit THEN Len(ordered)
                       ELSE ReportLimit)

\* what compare_excel_to_beancount prints: whether it raised, the percent
\* difference, whether the sums match closely, and in the other case the
\* count check, the number of repeated amounts and the amounts listed
Comparison(raised, percent, match, diagnosis, found, listed) ==
    [raised |-> raised, percent |-> percent, match |-> match,
     diagnosis |-> diagnosis, found |-> found, listed |-> listed]

Diagnosis(kind, n) == [kind |-> kind, n |-> n]

NoComparison ==
    Comparison(FALSE, NoPercent, FALSE, Diagnosis("none", 0), 0, <<>>)

\* compare_excel_to_beancount, from the amount column of the sheet and the
\* amounts of the TBC postings of the ledger
compare_excel_to_beancount(excel_amounts, tbc_amounts) ==
    LET excel_sum == SumSeq(excel_amounts)
        excel_count == Len(SelectSeq(excel_amounts, LAMBDA a : a > 0))
        beancount_sum == SumSeq(tbc_amounts)
        percent == percent_difference(excel_sum, beancount_sum)
    IN  IF percent.raised
        THEN Comparison(TRUE, percent, FALSE, Diagnosis("none", 0), 0, <<>>)
        ELSE IF Abs(excel_sum - beancount_sum) < CompareTolerance
        THEN Comparison(FALSE, percent, TRUE, Diagnosis("none", 0), 0, <<>>)
        ELSE Comparison(FALSE, percent, FALSE,
                 IF Len(tbc_amounts) > excel_count
                 THEN Diagnosis("LedgerHasExtra", Len(tbc_amounts) - excel_count)
                 ELSE IF Len(tbc_amounts) < excel_count
                 THEN Diagnosis("LedgerMissing", excel_count - Len(tbc_amounts))
                 ELSE Diagnosis("Matched", 0),
                 Len(duplicates(tbc_amounts)),
                 most_common(duplicates(tbc_amounts)))

\* the amount column of the sheet: -5.00, 0.004, 1.00, 5.00
ExcelAmounts == { -5000, 4, 1000, 5000 }

\* the amounts of the TBC postings: 1.00, 5.00, -5.00
TbcAmounts == { 1000, 5000, -5000 }

\* the ledgers with repeated amounts: the amount k.00 is posted counts[k]
\* times, one amount after the other
RECURSIVE RepeatedAmounts(_, _)
RepeatedAmounts(counts, k) ==
    IF k = 0 THEN <<>>
    ELSE RepeatedAmounts(counts, k - 1)
         \o [i \in 1..counts[k] |-> k * 1000]

RepeatedLedgers ==
    { RepeatedAmounts(counts, MaxAmounts) :
          counts \in [1..MaxAmounts -> 0..MaxRepeat] }

CompareCall(excel_amounts, tbc_amounts, done, out) ==
    [fn |-> "compare_excel_to_beancount", excel_amounts |-> excel_amounts,
     tbc_amounts |-> tbc_amounts, done |-> done, out |-> out]

\* compare_excel_to_beancount()
CompareExcelToBeancount ==
    /\ call.fn = "compare_excel_to_beancount"
    /\ ~call.done
    /\ call' = [call EXCEPT
           !.done = TRUE,
           !.out = compare_excel_to_beancount(call.excel_amounts,
                                              call.tbc_amounts)]
    /\ UNCHANGED <<txnVars, vatVars, amtVars, fileVars, name, payment, batch,
                   res, export>>

----------------------------------------------------------------------------
(* Two runs of the conversion of one record.  A day is a number of days    *)
(* since 1900-01-01; datetime.now() and uuid.uuid4() are given by the run  *)

\* the date cells: missing, a datetime, a string in a known format, a string
\* in no known format, an Excel serial number
NoDate == [t |-> "nan", day |-> 0]
DateTime(day) == [t |-> "datetime", day |-> day]
DateString(day) == [t |-> "str", day |-> day]
BadDateString == [t |-> "str", day |-> -1]
DateSerial(n) == [t |-> "num", day |-> n]

\* format_date: today for a missing cell and for a cell no branch converts
format_date(date_value, now) ==
    IF date_value.t = "nan" THEN now
    ELSE IF date_value.t = "datetime" THEN date_value.day
    ELSE IF date_value.t = "str" /\ date_value.day >= 0 THEN date_value.day
    ELSE IF date_value.t = "num" THEN date_value.day - 2
    ELSE now

\* normalize_date with the day of the run: today for an empty or missing
\* field, the ValueError of the last format for a string in no known format
normalize_date_on(s, today) ==
    IF s.t = "nan" THEN [raised |-> FALSE, day |-> today]
    ELSE IF s.t = "str" /\ s.day >= 0 THEN [raised |-> FALSE, day |-> s.day]
    ELSE [raised |-> TRUE, day |-> 0]

\* new_transaction_id: f"txn_{uuid.uuid4().hex[:12]}"
new_transaction_id(uuid4) == uuid4

\* the days of the runs and the values uuid4 can give
Days == 45000..(45000 + MaxDays)
Uuids == 1..MaxUuids

\* the date cells: missing, 2023-03-15 as a datetime and as a string,
\* "garbage", the serial number of 2023-03-15
DateCells ==
    { NoDate, DateTime(45000), DateString(45000), BadDateString,
      DateSerial(45002) }

\* what makes the date or the identifier of the transaction of a record:
\* format_date of the Excel importers, normalize_date of the CSV converter,
\* new_transaction_id for the id of a Transaction
DateConverters == { "format_date", "normalize_date", "new_transaction_id" }

\* what a run made of the record: the date and the identifier (0 where the
\* converter writes none)
Run(done, raised, now, date, id) ==
    [done |-> done, raised |-> raised, now |-> now, date |-> date, id |-> id]

NoRun == Run(FALSE, FALSE, 0, 0, 0)

RunsCall(converter, date_value, first, second) ==
    [fn |-> "runs", converter |-> converter, date_value |-> date_value,
     first |-> first, second |-> second]

\* one run of the converter on the record, on the day now
ConvertRecord(converter, date_value, now, uuid4) ==
    CASE converter = "format_date" ->
             Run(TRUE, FALSE, now, format_date(date_value, now), 0)
      [] converter = "normalize_date" ->
             LET date == normalize_date_on(date_value, now) IN
             Run(TRUE, date.raised, now, date.day, 0)
      [] converter = "new_transaction_id" ->
             Run(TRUE, FALSE, now, date_value.day, new_transaction_id(uuid4))

\* the first run over the record
FirstRun(now, uuid4) ==
    /\ call.fn = "runs"
    /\ ~call.first.done
    /\ call' = [call EXCEPT
           !.first = ConvertRecord(call.converter, call.date_value, now, uuid4)]
    /\ UNCHANGED <<txnVars, vatVars, amtVars, fileVars, name, payment, batch,
                   res, export>>

\* the second run over the same record, not before the first
SecondRun(now, uuid4) ==
    /\ call.fn = "runs"
    /\ call.first.done
    /\ ~call.second.done
    /\ now >= call.first.now
    /\ call' = [call EXCEPT
           !.second = ConvertRecord(call.converter, call.date_value, now, uuid4)]
    /\ UNCHANGED <<txnVars, vatVars, amtVars, fileVars, name, payment, batch,
                   res, export>>

----------------------------------------------------------------------------
(* scripts/importer.py: choose_counter_account *)

Keyword(kw, acct) == [kw |-> kw, acct |-> acct]

\* KEYWORD_ACCOUNT_MAP, in the order in which the dict was written
KEYWORD_ACCOUNT_MAP ==
    << Keyword(<<"s", "a", "l", "a", "r", "y">>, "Income:Salary"),
       Keyword(<<"p", "a", "y", "r", "o", "l", "l">>, "Income:Salary"),
       Keyword(<<"c", "o", "f", "f", "e", "e">>, "Expenses:Food:Coffee"),
       Keyword(<<"l", "a", "t", "t", "e">>, "Expenses:Food:Coffee"),
       Keyword(<<"s", "u", "b", "s", "c", "r", "i", "p", "t", "i", "o", "n">>,
               "Expenses:Services:Subscriptions"),
       Keyword(<<"a", "t", "m">>, "Expenses:Cash"),
       Keyword(<<"w", "i", "t", "h", "d", "r", "a", "w", "a", "l">>,
               "Expenses:Cash"),
       Keyword(<<"r", "e", "f", "u", "n", "d">>, "Income:Refunds") >>

DEFAULT_EXPENSE == "Expenses:Unknown"
DEFAULT_INCOME == "Income:Unknown"

\* the indices of the keywords found in the description
FoundKeywords(desc) ==
    { i \in 1..Len(KEYWORD_ACCOUNT_MAP) :
          Contains(desc, KEYWORD_ACCOUNT_MAP[i].kw) }

\* choose_counter_account returning at the last keyword found
choose_counter_account_LastMatch(description, amount) ==
    LET desc == IF description = NaNStr THEN <<>> ELSE LowerAll(description)
        found == FoundKeywords(desc)
    IN  IF found # {}
        THEN KEYWORD_ACCOUNT_MAP[CHOOSE i \in found : \A j \in found : j <= i].acct
        ELSE IF amount < 0 THEN DEFAULT_EXPENSE ELSE DEFAULT_INCOME

\* the loop over the keywords from index i on: the first keyword found in
\* the description returns
RECURSIVE first_keyword(_, _)
first_keyword(desc, i) ==
    IF i > Len(KEYWORD_ACCOUNT_MAP) THEN "none"
    ELSE IF Contains(desc, KEYWORD_ACCOUNT_MAP[i].kw)
         THEN KEYWORD_ACCOUNT_MAP[i].acct
    ELSE first_keyword(desc, i + 1)

\* choose_counter_account(description, amount)
choose_counter_account(description, amount) ==
    LET desc == IF description = NaNStr THEN <<>> ELSE LowerAll(description)
        acct == first_keyword(desc, 1)
    IN  IF acct # "none" THEN acct
        ELSE IF amount < 0 THEN DEFAULT_EXPENSE ELSE DEFAULT_INCOME

\* the words of the descriptions: "salary", "refund", "Coffee", "latte", "x"
DescriptionWords ==
    { <<"s", "a", "l", "a", "r", "y">>, <<"r", "e", "f", "u", "n", "d">>,
      <<"C", "o", "f", "f", "e", "e">>, <<"l", "a", "t", "t", "e">>, <<"x">> }

\* the descriptions: up to MaxWords words, and a missing description
Descriptions ==
    { JoinWords(words) :
          words \in UNION { [1..k -> DescriptionWords] : k \in 0..MaxWords } }
    \cup { NaNStr }

\* the amounts, in mills: -5.00, 0, 5.00
CounterAmounts == { -5000, 0, 5000 }

CounterCall(description, amount, done, acct) ==
    [fn |-> "choose_counter_account", description |-> description,
     amount |-> amount, done |-> done, acct |-> acct]

\* choose_counter_account(description, amount)
ChooseCounterAccount ==
    /\ call.fn = "choose_counter_account"
    /\ ~call.done
    /\ call' = [call EXCEPT
           !.done = TRUE,
           !.acct = choose_counter_account(call.description, call.amount)]
    /\ UNCHANGED <<txnVars, vatVars, amtVars, fileVars, name, payment, batch,
                   res, export>>

----------------------------------------------------------------------------
(* scripts/importer.py: the file convert_csv_to_beancount writes *)

\* a row of the CSV file, read by csv.DictReader; it has no account column
CsvRecord(description, amount, date) ==
    [description |-> description, amount |-> amount, date |-> date]

\* f"open {acct}    ; Imported account": an opening without a date
PlainOpenLine(account) == Line("open_plain", 0, account, Text(0, 0), "")

\* f"    {account}    {amt_text}" and f"    {counter_account}"
CsvPostingLine(account, text) == Line("posting", 4, account, text, "INR")
BlankPostingLine(account) == Line("posting", 4, account, Text(0, 0), "")

\* the lines of row_to_transaction(row); the amounts of the rows have no
\* more than two decimals
csv_transaction(row) ==
    LET amount == parse_decimal(row.amount).value
        counter_account ==
            choose_counter_account(row.description,
                                   IF amount.neg /\ ~FIsZero(amount) THEN -1
                                   ELSE 1)
    IN  << HeaderLine,
           CsvPostingLine(Account("Assets:Bank:Unknown", <<>>),
                          Fmt2f(amount, FALSE)),
           BlankPostingLine(Account(counter_account, <<>>)) >>

RECURSIVE csv_transactions(_)
csv_transactions(rows) ==
    IF rows = <<>> THEN <<>>
    ELSE csv_transaction(Head(rows)) \o csv_transactions(Tail(rows))

\* convert_csv_to_beancount: the text it writes; a row that raises leaves no
\* file
convert_csv_to_beancount(rows) ==
    IF \E i \in 1..Len(rows) :
           ~row_to_transaction(BatchRow(rows[i].amount, rows[i].date))
    THEN {}
    ELSE { (IF rows = <<>> THEN <<>>
            ELSE << PlainOpenLine(Account("Assets:Bank:Unknown", <<>>)) >>)
           \o csv_transactions(rows) }

\* the rows: "salary" or "x", with the amount "118.00", "1,000" or "x"
CsvRecords ==
    { CsvRecord(d, a, "ok") :
          d \in { <<"s", "a", "l", "a", "r", "y">>, <<"x">> },
          a \in { Str(<<"1", "1", "8", ".", "0", "0">>),
                  Str(<<"1", ",", "0", "0", "0">>), Str(<<"x">>) } }

\* python scripts/importer.py input.csv output.beancount
RunCsvConverter ==
    /\ export.exporter = "convert_csv_to_beancount"
    /\ ~export.done
    /\ LET texts == convert_csv_to_beancount(export.records) IN
       \/ /\ texts = {}
          /\ export' = [export EXCEPT !.done = TRUE]
       \/ \E text \in texts :
              export' = [export EXCEPT !.done = TRUE, !.written = TRUE,
                                       !.text = text]
    /\ UNCHANGED <<txnVars, vatVars, amtVars, fileVars, name, payment, batch,
                   res, call>>

----------------------------------------------------------------------------
(* analyze_beancount.py, validate_beancount.py, analyze_import.py *)

\* line.strip() and line[0].isdigit() and ' * ' in line, on the line as read
IsDatedHeader(line) == line.kind = "header" /\ line.indent = 0

\* the lines left in the file after the first loop has read up to the first
\* transaction header
RECURSIVE AfterFirstHeader(_)
AfterFirstHeader(lines) ==
    IF lines = <<>> THEN <<>>
    ELSE IF IsDatedHeader(Head(lines)) THEN Tail(lines)
    ELSE AfterFirstHeader(Tail(lines))

Totals(transaction_count, tbc_total, receivables_total) ==
    [transaction_count |-> transaction_count, tbc_total |-> tbc_total,
     receivables_total |-> receivables_total]

\* the second loop of analyze_beancount_file, the amounts in cents: a TBC
\* posting adds the digits before " GEL", a line that names a receivables
\* account adds the digits that follow a minus sign
RECURSIVE counted_lines(_, _)
counted_lines(lines, acc) ==
    IF lines = <<>> THEN acc
    ELSE LET line == Strip(Head(lines)) IN
         counted_lines(Tail(lines),
            IF line.kind = "header"
            THEN [acc EXCEPT !.transaction_count = @ + 1]
            ELSE IF line.kind = "posting" /\ line.account = tbc_bank_account
                 THEN IF line.currency = "GEL"
                      THEN [acc EXCEPT !.tbc_total = @ + line.text.cents]
                      ELSE acc
            ELSE IF /\ line.kind \in {"posting", "open"}
                    /\ line.account.base = "Assets:Receivables"
                    /\ line.account.customer # <<>>
                 THEN IF /\ line.kind = "posting"
                         /\ line.currency = "GEL"
                         /\ line.text.minus >= 1
                      THEN [acc EXCEPT !.receivables_total = @ + line.text.cents]
                      ELSE acc
            ELSE acc)

\* analyze_beancount_file of analyze_beancount.py
analyze_beancount_file(text) ==
    counted_lines(AfterFirstHeader(text), Totals(0, 0, 0))

\* any(acc in line for acc in ['Assets:', 'Expenses:', 'Income:'])
NamesAccountType(line) ==
    /\ line.kind \in {"posting", "open", "open_plain"}
    /\ line.account.base \in
           { "Assets:Bank:Checking", "Assets:Bank:Checking:TBC", "Assets:Cash",
             "Assets:Receivables", "Assets:Bank:Unknown", "Income:Sales",
             "Income:Salary", "Income:Refunds", "Income:Unknown",
             "Expenses:Unknown", "Expenses:Food:Coffee", "Expenses:Cash",
             "Expenses:Services:Subscriptions" }

Counts(open_accounts, transactions, postings) ==
    [open_accounts |-> open_accounts, transactions |-> transactions,
     postings |-> postings]

\* the number of lines for which the test holds
CountLines(text, Test(_)) == Cardinality({ i \in 1..Len(text) : Test(text[i]) })

\* validate_beancount_file: each line is stripped before it is tested
validate_beancount_file(text) ==
    Counts(CountLines(text, LAMBDA l : Strip(l).kind = "open_plain"),
           CountLines(text, LAMBDA l :
               Strip(l).kind = "header" /\ ~StartsWithIndent(Strip(l))),
           CountLines(text, LAMBDA l :
               /\ Strip(l).kind # "open_plain"
               /\ ~(Strip(l).kind = "header" /\ ~StartsWithIndent(Strip(l)))
               /\ StartsWithIndent(Strip(l))
               /\ (Strip(l).currency = "INR" \/ NamesAccountType(Strip(l)))))

\* analyze_beancount_file of analyze_import.py: each line is stripped before
\* it is tested; an opening counts when its date is 2025-01-01
analyze_import_file(text) ==
    Counts(0,
           CountLines(text, LAMBDA l :
               Strip(l).kind = "header" /\ ~StartsWithIndent(Strip(l))),
           CountLines(text, LAMBDA l :
               /\ ~(Strip(l).kind = "header" /\ ~StartsWithIndent(Strip(l)))
               /\ StartsWithIndent(Strip(l))
               /\ NamesAccountType(Strip(l))))

AnalysisCall(fn, out) == [fn |-> fn, out |-> out]

\* analyze_beancount_file(the written file) of analyze_beancount.py
AnalyzeBeancountFile ==
    /\ export.done /\ export.written
    /\ call' = AnalysisCall("analyze_beancount",
                            analyze_beancount_file(export.text))
    /\ UNCHANGED <<txnVars, vatVars, amtVars, fileVars, name, payment, batch,
                   res, export>>

\* validate_beancount_file(the written file)
ValidateBeancountFile ==
    /\ export.done /\ export.written
    /\ call' = AnalysisCall("validate_beancount",
                            validate_beancount_file(export.text))
    /\ UNCHANGED <<txnVars, vatVars, amtVars, fileVars, name, payment, batch,
                   res, export>>

\* analyze_beancount_file(the written file) of analyze_import.py
AnalyzeImportFile ==
    /\ export.done /\ export.written
    /\ call' = AnalysisCall("analyze_import", analyze_import_file(export.text))
    /\ UNCHANGED <<txnVars, vatVars, amtVars, fileVars, name, payment, batch,
                   res, export>>

----------------------------------------------------------------------------
(* What no call has touched *)

InitUnits ==
    /\ name = NoNameCall
    /\ payment = NoPaymentCall
    /\ batch = NoBatch
    /\ res = NoResult
    /\ export = NoExport
    /\ call = NotCalled

----------------------------------------------------------------------------
(* Specifications *)

\* the Transaction constructor and the ledger
Init ==
    /\ ledger = <<>>
    /\ outcome = NoCall
    /\ vat_rate = DefaultVatRate
    /\ entry = NoEntry
    /\ amt = NoAmountCall
    /\ file = EmptyFile
    /\ report = NoReport
    /\ InitUnits

Next ==
    \/ \E amount \in PostingAmounts \cup {0} : BuildPosting(amount)
    \/ \E postings \in PostingSeqs : BuildTransaction(postings)

Spec == Init /\ [][Next]_vars

\* the sale of a row under any configured rate
InitVat ==
    /\ ledger = <<>>
    /\ outcome = NoCall
    /\ vat_rate \in Rates
    /\ entry = NoEntry
    /\ amt = NoAmountCall
    /\ file = EmptyFile
    /\ report = NoReport
    /\ InitUnits

NextVat ==
    \/ \E row \in SaleRows : CalculateVatAmounts(clean_amount(row.amount))
    \/ \E row \in SaleRows : CreateBeancountEntry(row)
    \/ BuildSaleTransaction

SpecVat == InitVat /\ [][NextVat]_vars

\* the calls of make_amount
NextAmount ==
    \/ \E value \in AmountInputs : MakeAmount(value)
    \/ MakeAmountAgain

SpecAmount == Init /\ [][NextAmount]_vars

\* the exporters writing the ledger file, lines appended to it by hand, and
\* the analyses reading it
NextFile ==
    \/ \E rows \in RowSeqs(PaymentRows) : TbcExportToBeancount(rows)
    \/ \E rows \in RowSeqs(FileSaleRows) : ConvertToBeancount(rows)
    \/ \E rows \in RowSeqs(FileSaleRows) : ExportToBeancount(rows)
    \/ \E line \in AppendedLines : AppendLine(line)
    \/ AnalyzeBeancountAccounts
    \/ ParseBeancountFile

SpecFile == Init /\ [][NextFile]_vars

\* the name functions on any customer name and tax code
InitName ==
    /\ ledger = <<>>
    /\ outcome = NoCall
    /\ vat_rate = DefaultVatRate
    /\ entry = NoEntry
    /\ amt = NoAmountCall
    /\ file = EmptyFile
    /\ report = NoReport
    /\ \E input \in NameInputs, tax_code \in TaxCodes :
           name = NameCall("none", input, tax_code, <<>>, <<>>, {})
    /\ payment = NoPaymentCall
    /\ batch = NoBatch
    /\ res = NoResult
    /\ export = NoExport
    /\ call = NotCalled

NextName ==
    \/ CleanOrganizationName
    \/ CleanOrganizationNameAgain
    \/ GetCustomerAccounts
    \/ GetReceivablesAccount

SpecName == InitName /\ [][NextName]_vars

\* the routing functions on any payment-method cell
InitPayment ==
    /\ ledger = <<>>
    /\ outcome = NoCall
    /\ vat_rate = DefaultVatRate
    /\ entry = NoEntry
    /\ amt = NoAmountCall
    /\ file = EmptyFile
    /\ report = NoReport
    /\ name = NoNameCall
    /\ \E input \in PaymentMethods :
           payment = PaymentCall("none", input, NoAccount, FALSE)
    /\ batch = NoBatch
    /\ res = NoResult
    /\ export = NoExport
    /\ call = NotCalled

NextPayment ==
    \/ DeterminePaymentAccount
    \/ IsCashPayment

SpecPayment == InitPayment /\ [][NextPayment]_vars

\* any batch of records through any converter
InitBatch ==
    /\ ledger = <<>>
    /\ outcome = NoCall
    /\ vat_rate = DefaultVatRate
    /\ entry = NoEntry
    /\ amt = NoAmountCall
    /\ file = EmptyFile
    /\ report = NoReport
    /\ name = NoNameCall
    /\ payment = NoPaymentCall
    /\ \E converter \in Converters, rows \in RowSeqs(BatchRows) :
           batch = Batch(converter, rows, FALSE, BatchResult(FALSE, {}, {}, {}))
    /\ res = NoResult
    /\ export = NoExport
    /\ call = NotCalled

NextBatch == RunBatch

SpecBatch == InitBatch /\ [][NextBatch]_vars

\* the constructor and the methods of Result
NextResult ==
    \/ \E value \in ResultValues, error \in ResultErrors :
           BuildResult(value, error)
    \/ IsOkIsErr
    \/ Unwrap
    \/ \E default \in ResultValues : UnwrapOr(default)

SpecResult == Init /\ [][NextResult]_vars

\* the exporters run on the records of a spreadsheet
InitExport ==
    /\ ledger = <<>>
    /\ outcome = NoCall
    /\ vat_rate \in ExportRates
    /\ entry = NoEntry
    /\ amt = NoAmountCall
    /\ file = EmptyFile
    /\ report = NoReport
    /\ name = NoNameCall
    /\ payment = NoPaymentCall
    /\ batch = NoBatch
    /\ res = NoResult
    /\ \E exporter \in Exporters, records \in RowSeqs(ExportRecords) :
           export = Export(exporter, records, FALSE, FALSE, <<>>)
    /\ call = NotCalled

NextExport == RunExport

SpecExport == InitExport /\ [][NextExport]_vars

\* the comparison of a sheet with a ledger
InitCompare ==
    /\ ledger = <<>>
    /\ outcome = NoCall
    /\ vat_rate = DefaultVatRate
    /\ entry = NoEntry
    /\ amt = NoAmountCall
    /\ file = EmptyFile
    /\ report = NoReport
    /\ name = NoNameCall
    /\ payment = NoPaymentCall
    /\ batch = NoBatch
    /\ res = NoResult
    /\ export = NoExport
    /\ \E excel_amounts \in RowSeqs(ExcelAmounts),
          tbc_amounts \in UNION { [1..n -> TbcAmounts] : n \in 0..MaxPostings } :
           call = CompareCall(excel_amounts, tbc_amounts, FALSE, NoComparison)

NextCompare == CompareExcelToBeancount

SpecCompare == InitCompare /\ [][NextCompare]_vars

\* the comparison of an empty sheet with a ledger of repeated amounts
InitDuplicates ==
    /\ ledger = <<>>
    /\ outcome = NoCall
    /\ vat_rate = DefaultVatRate
    /\ entry = NoEntry
    /\ amt = NoAmountCall
    /\ file = EmptyFile
    /\ report = NoReport
    /\ name = NoNameCall
    /\ payment = NoPaymentCall
    /\ batch = NoBatch
    /\ res = NoResult
    /\ export = NoExport
    /\ \E tbc_amounts \in RepeatedLedgers :
           call = CompareCall(<<>>, tbc_amounts, FALSE, NoComparison)

NextDuplicates == CompareExcelToBeancount

SpecDuplicates == InitDuplicates /\ [][NextDuplicates]_vars

\* two runs of a converter over one record
InitRuns ==
    /\ ledger = <<>>
    /\ outcome = NoCall
    /\ vat_rate = DefaultVatRate
    /\ entry = NoEntry
    /\ amt = NoAmountCall
    /\ file = EmptyFile
    /\ report = NoReport
    /\ name = NoNameCall
    /\ payment = NoPaymentCall
    /\ batch = NoBatch
    /\ res = NoResult
    /\ export = NoExport
    /\ \E converter \in DateConverters, date_value \in DateCells :
           call = RunsCall(converter, date_value, NoRun, NoRun)

NextRuns ==
    \/ \E now \in Days, uuid4 \in Uuids : FirstRun(now, uuid4)
    \/ \E now \in Days, uuid4 \in Uuids : SecondRun(now, uuid4)

SpecRuns == InitRuns /\ [][NextRuns]_vars

\* the choice of the counter account of a row
InitCounter ==
    /\ ledger = <<>>
    /\ outcome = NoCall
    /\ vat_rate = DefaultVatRate
    /\ entry = NoEntry
    /\ amt = NoAmountCall
    /\ file = EmptyFile
    /\ report = NoReport
    /\ name = NoNameCall
    /\ payment = NoPaymentCall
    /\ batch = NoBatch
    /\ res = NoResult
    /\ export = NoExport
    /\ \E description \in Descriptions, amount \in CounterAmounts :
           call = CounterCall(description, amount, FALSE, "none")

NextCounter == ChooseCounterAccount

SpecCounter == InitCounter /\ [][NextCounter]_vars

\* the payments exporter and the CSV converter, and the analyses of the
\* files they write
InitAnalyze ==
    /\ ledger = <<>>
    /\ outcome = NoCall
    /\ vat_rate = DefaultVatRate
    /\ entry = NoEntry
    /\ amt = NoAmountCall
    /\ file = EmptyFile
    /\ report = NoReport
    /\ name = NoNameCall
    /\ payment = NoPaymentCall
    /\ batch = NoBatch
    /\ res = NoResult
    /\ \/ \E records \in RowSeqs(ExportRecords) :
              export = Export("tbc_export_to_beancount", records, FALSE, FALSE,
                              <<>>)
       \/ \E records \in RowSeqs(CsvRecords) :
              export = Export("convert_csv_to_beancount", records, FALSE, FALSE,
                              <<>>)
    /\ call = NotCalled

NextAnalyze ==
    \/ RunExport
    \/ RunCsvConverter
    \/ AnalyzeBeancountFile
    \/ ValidateBeancountFile
    \/ AnalyzeImportFile

SpecAnalyze == InitAnalyze /\ [][NextAnalyze]_vars

----------------------------------------------------------------------------
(* Claims about Transaction *)

LedgerTotal == SumSeq([i \in 1..Len(ledger) |-> Total(ledger[i].postings)])

C2_Cases ==
    { ps \in PostingSeqs :
        \/ Len(ps) = 1
        \/ Len(ps) = 2 /\ Abs(Total(ps)) = 5000
        \/ Cardinality(CurrenciesOf(ps)) = 2 }

\* C2: a single posting, two postings 5.00 off balance, or two currencies fail
\* with a ValidationError delivered as a Result, never as a raised exception,
\* and no Transaction comes into existence
C2_FailsThroughResult ==
    [][ \A ps \in C2_Cases :
          BuildTransaction(ps) =>
            /\ ~outcome'.ok
            /\ outcome'.exc = "ValidationError"
            /\ outcome'.channel = "result"
            /\ ledger' = ledger ]_vars

----------------------------------------------------------------------------
(* Claims about the ledger file *)

\* the posting lines of the file
FilePostings == { i \in 1..Len(file.lines) : file.lines[i].kind = "posting" }

\* every amount written in the file is a decimal number
AllAmountsParse == \A i \in FilePostings : DecimalParses(file.lines[i].text)

\* the exact sum, in mills, of the amounts of the posting lines in `lines`
RECURSIVE PostingSum(_)
PostingSum(lines) ==
    IF lines = {} THEN 0
    ELSE LET i == CHOOSE x \in lines : TRUE IN
         DecimalOfText(file.lines[i].text) + PostingSum(lines \ {i})

\* the accounts that occur in a posting line
FileAccounts == { file.lines[i].account : i \in FilePostings }

\* C4: the balance check of the file reports it balanced if and only if the
\* sum of all its posting amounts is within 0.01 of zero; a file of one lone
\* posting of 5.00 GEL is reported as not balanced
C4_BalancedIffWithinTolerance ==
    (report.by = "analyze_accounts" /\ AllAmountsParse) =>
        (report.balanced <=> Abs(PostingSum(FilePostings)) <= Tolerance)

\* C5: the per-account totals computed from the file hold, for every account
\* of a posting line, the exact sum of the amounts posted to it, accounts with
\* Georgian letters in the customer segment included
C5_PerAccountTotalsExact ==
    (report.by # "none" /\ AllAmountsParse) =>
        \A account \in FileAccounts :
            /\ account \in DOMAIN report.accounts
            /\ report.accounts[account] =
                   PostingSum({ i \in FilePostings :
                                    file.lines[i].account = account })

\* C6: no posting line of the file shows 0.00 or -0.00
C6_NoZeroPostingWritten ==
    \A i \in FilePostings : file.lines[i].text.cents # 0

----------------------------------------------------------------------------
(* Claims about the VAT split *)

\* the signed cents of a written amount
WrittenCents(text) == IF text.minus = 1 THEN -text.cents ELSE text.cents

\* w cents is a nearest cent of the fraction num / den
NearestCent(w, num, den) == 2 * Abs(w * den - num) <= Abs(den)

\* the last call wrote the entry of a positive total under a rate above -1
PositiveSale ==
    /\ entry.result = "entry"
    /\ ~entry.split.total.neg /\ ~FIsZero(entry.split.total)
    /\ vat_rate > -100

\* what the posting lines of the entry add up to, in cents
EntrySum ==
    WrittenCents(entry.lines[2].text) + WrittenCents(entry.lines[3].text)
        + WrittenCents(entry.lines[4].text)

\* C7: for a positive total and a rate above -1 the rounded net and tax add up
\* to the total within 0.01, and the three written amounts sum to within 0.01
\* of zero
C7_SplitWithinOneCent ==
    PositiveSale =>
        LET net == -WrittenCents(entry.lines[3].text)
            tax == -WrittenCents(entry.lines[4].text)
            total == entry.split.total
        IN  /\ \A i \in 2..4 : DecimalParses(entry.lines[i].text)
            /\ Abs((net + tax) * total.d - total.n) <= total.d
            /\ Abs(EntrySum) <= 1

\* a sale whose written amounts are a whole cent off balance
C7_Witness == PositiveSale /\ Abs(EntrySum) = 1

\* C8: for a positive total and a rate above -1 the split returns
\* total / (1 + rate) and total - net, each rounded to 2 decimals; 118.00 at
\* 0.18 gives 100.00 and 18.00, and the Transaction of +118.00, -100.00,
\* -18.00 is constructed
C8_SplitReturnsRounded ==
    /\ (entry.result \in {"split", "entry"} /\ entry.split.ok
            /\ ~entry.split.total.neg /\ ~FIsZero(entry.split.total)
            /\ vat_rate > -100) =>
        LET total == entry.split.total
            den == total.d * (100 + vat_rate)
        IN  /\ entry.split.net.d = 1
            /\ entry.split.vat.d = 1
            /\ NearestCent(Signed(entry.split.net, 1), total.n * 100, den)
            /\ NearestCent(Signed(entry.split.vat, 1), total.n * vat_rate, den)
    /\ (entry.result = "entry" /\ vat_rate = DefaultVatRate
            /\ entry.split.total = FloatOfCents(11800)) =>
        /\ entry.split.net = FloatOfCents(10000)
        /\ entry.split.vat = FloatOfCents(1800)
        /\ outcome # NoCall =>
            /\ outcome.ok
            /\ Amounts(PostingsOfEntry(entry)) = <<118000, -100000, -18000>>

\* the last call was given a rate of -1 or below, or a zero total
C9_Degenerate ==
    \/ entry.result = "None"
    \/ /\ entry.result \in {"split", "entry", "raised"}
       /\ vat_rate <= -100 \/ FIsZero(entry.split.total)

\* C9: the VAT split fails with a ValidationError and gives no net/tax pair
\* whenever the rate is -1 or below or the total is zero
C9_SplitFailsWithValidationError ==
    C9_Degenerate =>
        /\ ~entry.split.ok
        /\ entry.split.exc = "ValidationError"
        /\ entry.result # "entry"

----------------------------------------------------------------------------
(* Claims about make_amount *)

\* the argument of the last call is a number
AmountParses == amt.input.t = "dec" \/ DecimalStringParses(amt.input.s)

\* the argument of the last call, as a fraction of a cent
AmountArgument ==
    IF amt.input.t = "str" THEN FloatOfString(amt.input.s) ELSE amt.input.v

----------------------------------------------------------------------------
(* Claims about names and accounts *)

\* a character allowed in a normalized name
NameCharAllowed(c) == IsAlnum(c) \/ c = "-"

\* C11: clean_organization_name returns, for any string, a non-empty name of
\* at most 50 characters, each alphanumeric or a hyphen, and "Unknown" when
\* the input holds no alphanumeric character
C11_NormalizeTotal ==
    name.op \in {"clean", "again"} =>
        /\ Len(name.out) \in 1..NameLimit
        /\ \A i \in 1..Len(name.out) : NameCharAllowed(name.out[i])
        /\ (name.input = NaNStr \/ SelectSeq(name.input, IsAlnum) = <<>>) =>
               name.out = Unknown

\* a name longer than 50 characters with underscores was cut to 50
\* characters
C11_Witness ==
    /\ name.op = "clean"
    /\ Len(name.input) > NameLimit
    /\ "_" \in { name.input[i] : i \in 1..Len(name.input) }
    /\ Len(name.out) = NameLimit

\* C12: cleaning a cleaned name gives the same name
C12_NormalizeIdempotent ==
    name.op = "again" => name.again = name.out

\* the first segment of the account bases written in the code
RootOf(base) ==
    CASE base \in {"Assets:Bank:Checking", "Assets:Cash", "Assets:Receivables",
                   "Assets:Bank:Checking:TBC"} -> "Assets"
      [] base = "Income:Sales" -> "Income"
      [] base = "Liabilities:VAT:Output" -> "Liabilities"
      [] OTHER -> ""

\* C13: every account generated for a customer starts with one of the five
\* roots, has no empty segment, and is made of alphanumeric characters,
\* hyphens and colons
C13_AccountNameInvariant ==
    \A account \in name.accounts :
        /\ RootOf(account.base) \in
               {"Assets", "Liabilities", "Equity", "Income", "Expenses"}
        /\ account.customer # <<>>
        /\ \A i \in 1..Len(account.customer) :
               NameCharAllowed(account.customer[i])

----------------------------------------------------------------------------
(* Claims about the routing of a sale *)

\* the cell holds the word somewhere, in any case
Holds(cell, word) ==
    /\ cell # NaNStr
    /\ \E i \in 0..(Len(cell) - Len(word)) :
           \A j \in 1..Len(word) : Lower(cell[i + j]) = word[j]

HoldsCash(cell) == \E word \in CashWords : Holds(cell, word)
HoldsBank(cell) == \E word \in BankWords : Holds(cell, word)

CashAccount == Account("Assets:Cash", RoutedCustomer)
BankAccount == Account("Assets:Bank:Checking", RoutedCustomer)

C15_BankWinsOverCash ==
    (payment.op = "determine" /\ HoldsCash(payment.input)
         /\ HoldsBank(payment.input)) =>
        payment.account = BankAccount

----------------------------------------------------------------------------
(* Claims about the transactions the exporters write *)

\* a written amount above zero, below zero
WrittenPositive(text) == text.minus = 0 /\ text.cents > 0
WrittenNegative(text) == text.minus = 1 /\ text.cents > 0

\* the lines are one transaction of a header and two postings per payment:
\* a positive amount on the bank account, then the same amount with a minus
\* sign on the receivables account of the customer of the payment
PaymentRuleHolds(df, lines) ==
    /\ Len(lines) = 3 * Len(df)
    /\ \A k \in 1..Len(df) :
        LET header == lines[3 * k - 2]
            inbound == lines[3 * k - 1]
            offset == lines[3 * k]
        IN  /\ header.kind = "header"
            /\ inbound.kind = "posting" /\ offset.kind = "posting"
            /\ inbound.account = tbc_bank_account
            /\ WrittenPositive(inbound.text)
            /\ offset.account.base = "Assets:Receivables"
            /\ offset.account =
                   get_receivables_account(df[k].customer, df[k].tax_code)
            /\ WrittenNegative(offset.text)
            /\ offset.text.cents = inbound.text.cents
            /\ DecimalOfText(inbound.text) + DecimalOfText(offset.text) = 0

\* C16: every payment that is exported is written as a transaction of exactly
\* two postings, a positive one of the received amount on the bank account and
\* a negative one of the same magnitude on the customer's receivables account
C16_PaymentRule ==
    [][\A rows \in RowSeqs(PaymentRows) :
           TbcExportToBeancount(rows) =>
               PaymentRuleHolds(tbc_load_data(rows), file'.lines)]_vars

\* the sale rows of the loaded data whose total is not zero
NonZeroSales(df) == SelectSeq(df, LAMBDA r : ~FIsZero(clean_amount(r.amount)))

\* the lines are one transaction of a header and three postings per sale: the
\* total, positive, on the cash or bank account selected for the customer,
\* and a negative net and a negative VAT on the customer's income and VAT
\* accounts
SaleRuleHolds(sales, lines) ==
    /\ Len(lines) = 4 * Len(sales)
    /\ \A k \in 1..Len(sales) :
        LET customer_accounts ==
                get_customer_accounts(StripChars(sales[k].organization, SpaceChars))
            asset_account ==
                determine_payment_account(sales[k].payment_method,
                                          customer_accounts)
            postings == { lines[4 * k - 2], lines[4 * k - 1], lines[4 * k] }
        IN  /\ lines[4 * k - 3].kind = "header"
            /\ \A line \in postings : line.kind = "posting"
            /\ \E line \in postings :
                   line.account = asset_account /\ WrittenPositive(line.text)
            /\ \E line \in postings :
                   /\ line.account = customer_accounts.sales
                   /\ WrittenNegative(line.text)
            /\ \E line \in postings :
                   /\ line.account = customer_accounts.vat
                   /\ WrittenNegative(line.text)

\* C17: every exporter of sales writes, for every sale with a non-zero total,
\* a transaction of exactly three postings: the positive total on the selected
\* cash or bank account, the negative net on the customer's income account and
\* the negative VAT on the customer's VAT account
C17_SaleRule ==
    [][\A rows \in RowSeqs(FileSaleRows) :
           (ConvertToBeancount(rows) \/ ExportToBeancount(rows)) =>
               SaleRuleHolds(NonZeroSales(load_data(rows)), file'.lines)]_vars

----------------------------------------------------------------------------
(* Claims about malformed records *)

\* the amount cell holds a number
IsNumber(amount) ==
    /\ amount.t = "str"
    /\ LET digits == WithoutCommas(amount.s) IN
       /\ digits # <<>>
       /\ \A i \in 1..Len(digits) : digits[i] \in DigitChars \cup {".", "-"}
       /\ \E i \in 1..Len(digits) : digits[i] \in DigitChars

\* the rows of the batch that are well formed, and the others
ValidRows ==
    { i \in 1..Len(batch.rows) :
          IsNumber(batch.rows[i].amount) /\ batch.rows[i].date = "ok" }
MalformedRows == (1..Len(batch.rows)) \ ValidRows

\* C18: in a batch with one malformed record every valid record appears as a
\* transaction in the output of the converter, and a malformed record that
\* does not appear has an error recorded for it
C18_BatchContinues ==
    (batch.done /\ Cardinality(MalformedRows) = 1) =>
        /\ ValidRows \subseteq batch.result.written
        /\ (MalformedRows \ batch.result.written) \subseteq batch.result.errors

\* C19: no amount that is not a number is turned into zero, and every record
\* that is missing from the output has an error recorded for it
C19_NeverCoercedToZero ==
    batch.done =>
        /\ batch.result.coerced = {}
        /\ \A i \in 1..Len(batch.rows) :
               ~IsNumber(batch.rows[i].amount) => i \in batch.result.errors
        /\ ((1..Len(batch.rows)) \ batch.result.written)
               \subseteq batch.result.errors

----------------------------------------------------------------------------
(* Claims about Result *)

\* the Result at hand holds a value, holds an error
HoldsValue == res.r.value.t = "some"
HoldsError == res.r.error.t = "some"

\* C20: a constructed Result holds exactly one of value and error; exactly one
\* of is_ok() and is_err() is true; unwrap() raises on an error and returns
\* the value otherwise; unwrap_or(default) returns the default when the Result
\* holds an error and the value when it holds a value
C20_ResultExactlyOne ==
    /\ res.constructed => (HoldsValue # HoldsError)
    /\ (res.op = "init" /\ ~res.constructed) =>
           (HoldsValue = HoldsError /\ res.raised)
    /\ res.op = "is_ok" =>
        /\ res.ok # res.err
        /\ res.ok = HoldsValue
    /\ res.op = "unwrap" =>
        /\ res.raised = HoldsError
        /\ HoldsError => res.ret.t = "none"
        /\ HoldsValue => res.ret = res.r.value
    /\ res.op = "unwrap_or" =>
        /\ HoldsError => res.ret = res.default
        /\ HoldsValue => res.ret = res.r.value

\* unwrap_or(5) on a Result holding the value 0 returned 0
C20_Witness ==
    /\ res.op = "unwrap_or"
    /\ res.r.value = [t |-> "some", v |-> 0]
    /\ res.default = [t |-> "some", v |-> 5]
    /\ res.ret = [t |-> "some", v |-> 0]

\* C27: Result(value=None, error=None) is rejected, no constructed Result
\* holds the value None without an error, and is_ok() is false for a Result
\* whose value is None
C27_NoSuccessWithNone ==
    /\ (res.op = "init" /\ ~HoldsValue /\ ~HoldsError) =>
           (~res.constructed /\ res.raised)
    /\ (res.constructed /\ ~HoldsValue) => HoldsError
    /\ (res.constructed /\ res.op = "is_ok" /\ ~HoldsValue) => ~res.ok

\* Result(value=None, error=None) raised ValueError
C27_Witness ==
    /\ res.op = "init"
    /\ res.r = [value |-> None, error |-> None]
    /\ ~res.constructed
    /\ res.raised

----------------------------------------------------------------------------
(* Claims about the text of an exported file *)

\* the lines of the text that are of the kind
LinesOf(kind) ==
    { i \in 1..Len(export.text) : export.text[i].kind = kind }

\* the header lines of the text from the first to the last
RECURSIVE Ascending(_)
Ascending(indices) ==
    IF indices = {} THEN <<>>
    ELSE LET first == CHOOSE i \in indices : \A j \in indices : i <= j
         IN  <<first>> \o Ascending(indices \ {first})

\* the posting lines of the transaction whose header is line i
PostingsOfHeader(i) ==
    { j \in LinesOf("posting") :
          j > i /\ \A h \in LinesOf("header") : ~(i < h /\ h < j) }

\* the names a record can give to the accounts of its customer
CustomerKeys(record) ==
    { clean_organization_name(record.organization),
      clean_organization_name(clean_organization_name(record.organization)),
      get_receivables_account(record.organization, record.tax_code).customer }

\* the transaction whose header is line i can be the one of the record: its
\* customer accounts carry a name of the record and one of its postings
\* carries the amount of the record
WrittenFrom(i, record) ==
    /\ record.organization # NaNStr
    /\ \E j \in PostingsOfHeader(i) :
           export.text[j].account.customer \in CustomerKeys(record)
    /\ \A j \in PostingsOfHeader(i) :
           export.text[j].account.customer \in CustomerKeys(record) \cup {<<>>}
    /\ \E j \in PostingsOfHeader(i) :
           export.text[j].text \in Fmt2fSet(clean_amount(record.amount))

\* C21: in a written file all open lines come before the first transaction
\* line, the open lines are in ascending order of account name with no
\* account twice, and the transactions follow the order of the records
C21_OpensSortedThenInputOrder ==
    (export.done /\ export.written) =>
        /\ \A i \in LinesOf("open") :
               \A j \in 1..Len(export.text) :
                   export.text[j].kind # "open" => i < j
        /\ \A i \in LinesOf("open") :
               (i + 1) \in LinesOf("open") =>
                   AccountLess(export.text[i].account,
                               export.text[i + 1].account)
        /\ LET headers == Ascending(LinesOf("header")) IN
           \E m \in [1..Len(headers) -> 1..Len(export.records)] :
               /\ \A k \in 1..Len(headers) :
                      WrittenFrom(headers[k], export.records[m[k]])
               /\ \A k \in 1..(Len(headers) - 1) : m[k] < m[k + 1]

\* the payments exporter wrote three open lines and the transactions of two
\* different customers
C21_Witness ==
    /\ export.done /\ export.written
    /\ export.exporter = "tbc_export_to_beancount"
    /\ Cardinality(LinesOf("open")) = 3
    /\ \E i, j \in LinesOf("header") :
           /\ i < j
           /\ export.text[i + 2].account # export.text[j + 2].account

\* C29: in a written file every account of a posting line has an open line
C29_EveryUsedAccountOpened ==
    (export.done /\ export.written) =>
        \A j \in LinesOf("posting") :
            \E i \in LinesOf("open") :
                export.text[i].account = export.text[j].account

\* the sales exporter wrote the transaction of the customer "a_-a", whose
\* name is "a--a" cleaned once and "a-a" cleaned twice
C29_Witness ==
    /\ export.done /\ export.written
    /\ export.exporter = "export_to_beancount"
    /\ \E k \in 1..Len(export.records) :
           LET cleaned ==
                   clean_organization_name(export.records[k].organization)
           IN  /\ clean_organization_name(cleaned) # cleaned
               /\ \E j \in LinesOf("posting") :
                      export.text[j].account =
                          Account("Assets:Receivables",
                                  clean_organization_name(cleaned))

----------------------------------------------------------------------------
(* Claims about the comparison of the sheet with the ledger *)

ComparedExcelSum == SumSeq(call.excel_amounts)
ComparedLedgerSum == SumSeq(call.tbc_amounts)
ComparedExcelCount == Len(SelectSeq(call.excel_amounts, LAMBDA a : a > 0))
Compared == call.fn = "compare_excel_to_beancount" /\ call.done

\* C22: the comparison ends without a division by zero, the sums match
\* exactly when they differ by less than the tolerance, and the percent
\* difference is given exactly when the sum of the sheet is not zero
C22_CompareTotals ==
    Compared =>
        /\ ~call.out.raised
        /\ call.out.match =
               (Abs(ComparedExcelSum - ComparedLedgerSum) < CompareTolerance)
        /\ call.out.percent.printed = (ComparedExcelSum # 0)
        /\ call.out.percent.printed =>
               /\ call.out.percent.d = ComparedExcelSum
               /\ call.out.percent.n =
                      Abs(ComparedExcelSum - ComparedLedgerSum) * 100

\* the sheet sums to zero, the ledger does not, and no percent is given
C22_Witness ==
    /\ Compared
    /\ call.excel_amounts # <<>>
    /\ ComparedExcelSum = 0
    /\ ComparedLedgerSum # 0
    /\ ~call.out.percent.printed
    /\ ~call.out.match

\* the amounts that occur more than once among the TBC postings
RepeatedSet ==
    { call.tbc_amounts[i] : i \in 1..Len(call.tbc_amounts) } \cap
    { a \in TbcAmounts \cup { k * 1000 : k \in 1..MaxAmounts } :
          CountOf(call.tbc_amounts, a) > 1 }

\* C23: when the sums differ, the amounts listed are exactly the amounts
\* that occur more than once, each with its number of occurrences, the
\* larger number first
C23_DuplicatesReported ==
    (Compared /\ ~call.out.match) =>
        LET listed == call.out.listed IN
        /\ { listed[i].amount : i \in 1..Len(listed) } = RepeatedSet
        /\ \A i \in 1..Len(listed) :
               listed[i].count = CountOf(call.tbc_amounts, listed[i].amount)
        /\ \A i \in 1..(Len(listed) - 1) :
               listed[i].count >= listed[i + 1].count

\* C24: the count check says Matched for equal counts, LedgerHasExtra with
\* the surplus and LedgerMissing with the shortfall, and whenever the counts
\* differ the check and the repeated amounts are given, whether the sums
\* match or not
C24_CrossCheckCounts ==
    Compared =>
        LET source_count == ComparedExcelCount
            ledger_count == Len(call.tbc_amounts)
        IN  /\ call.out.diagnosis.kind # "none" =>
                   call.out.diagnosis =
                       IF ledger_count > source_count
                       THEN Diagnosis("LedgerHasExtra", ledger_count - source_count)
                       ELSE IF ledger_count < source_count
                       THEN Diagnosis("LedgerMissing", source_count - ledger_count)
                       ELSE Diagnosis("Matched", 0)
            /\ ledger_count # source_count =>
                   /\ call.out.diagnosis.kind # "none"
                   /\ call.out.found = Cardinality(RepeatedSet)

----------------------------------------------------------------------------
(* Claims about two runs over the same record *)

\* C25: two runs over the same record give the same date and the same
\* identifier, and fail alike
C25_RunsAgree ==
    (call.fn = "runs" /\ call.first.done /\ call.second.done) =>
        /\ call.first.raised = call.second.raised
        /\ call.first.date = call.second.date
        /\ call.first.id = call.second.id

----------------------------------------------------------------------------
(* Claims about the counter account *)

\* the keywords the description holds, whatever the case of its letters
MatchingKeywords ==
    IF call.description = NaNStr THEN {}
    ELSE { i \in 1..Len(KEYWORD_ACCOUNT_MAP) :
               Contains(LowerAll(call.description), KEYWORD_ACCOUNT_MAP[i].kw) }

\* C26: the account chosen is the account of the earliest keyword the
\* description holds, whatever the case of its letters; without a keyword it
\* is the unknown-expense account for a negative amount and the
\* unknown-income account otherwise
C26_FirstMatchWins ==
    (call.fn = "choose_counter_account" /\ call.done) =>
        IF MatchingKeywords # {}
        THEN \E i \in MatchingKeywords :
                 /\ \A j \in MatchingKeywords : i <= j
                 /\ call.acct = KEYWORD_ACCOUNT_MAP[i].acct
        ELSE call.acct = IF call.amount < 0 THEN "Expenses:Unknown"
                         ELSE "Income:Unknown"

\* "refund Coffee" holds the keywords coffee and refund: the account is the
\* one of coffee, the earlier keyword
C26_Witness ==
    /\ call.fn = "choose_counter_account" /\ call.done
    /\ call.description =
           <<"r", "e", "f", "u", "n", "d", " ", "C", "o", "f", "f", "e", "e">>
    /\ call.acct = "Expenses:Food:Coffee"

----------------------------------------------------------------------------
(* Claims about the counts of the analyses *)

\* the sum of the amounts, in cents, of the posting lines for which the
\* test holds
CentsOf(lines, Test(_)) ==
    SumSeq([i \in 1..Len(lines) |->
               IF lines[i].kind = "posting" /\ Test(lines[i])
               THEN lines[i].text.cents ELSE 0])

\* C28: the transaction count of analyze_beancount.py is the number of
\* header lines of the file, and its two totals are the sums over the
\* postings of all transactions
C28_CountsEveryTransaction ==
    call.fn = "analyze_beancount" =>
        /\ call.out.transaction_count = Cardinality(LinesOf("header"))
        /\ call.out.tbc_total =
               CentsOf(export.text, LAMBDA l : l.account = tbc_bank_account)
        /\ call.out.receivables_total =
               CentsOf(export.text,
                       LAMBDA l : /\ l.account.base = "Assets:Receivables"
                                  /\ l.account.customer # <<>>
                                  /\ l.text.minus >= 1)

\* C30: the posting count of validate_beancount.py and of analyze_import.py
\* is the number of indented posting lines of the file
C30_PostingsCounted ==
    call.fn \in {"validate_beancount", "analyze_import"} =>
        call.out.postings =
            Cardinality({ i \in LinesOf("posting") : export.text[i].indent >= 4 })

====
